---- MODULE Spec2Model ----
(***************************************************************************)
(* Verification model of bevy-kdl-ui: the template-kdl macro expansion     *)
(* engine (bindings, declarations, contexts, thunks), the multi-error      *)
(* accumulator and the reflect builder that consumes thunks.               *)
(***************************************************************************)
EXTENDS Integers, Sequences, FiniteSets, TLC

VARIABLES
    pc,         \* position of the driver: "parsed", "read", "panic", ...
    document,   \* the KdlDocument handed to read_document (sequence of nodes)
    required,   \* the RequiredBindings handed to read_document
    bindings,   \* the Binding list folded by read_document, oldest first
    result,     \* the MultiResult<Document, Error> read_document returned
    parent,     \* the NodeThunk whose children were last requested
    kids,       \* the thunks NodeThunk::children yielded for `parent`
    evaluated,  \* the MultiResult<KdlNode, Error> of NodeThunk::evaluate
    accum,      \* multi_err scenario: the MultiError accumulator
    acc,        \* multi_err scenario: the MultiResult being operated on
    log,        \* multi_err scenario: every error in order of detection
    build,      \* builder scenario: the node, the shape and what was built
    answer      \* read_doc scenario: the ConvertResult handed to the caller

vars == <<pc, document, required, bindings, result, parent, kids, evaluated, accum, acc, log, build, answer>>

\* the variables of the three scenarios
templateVars == <<document, required, bindings, result, parent, kids, evaluated>>
multiVars == <<accum, acc, log>>
buildVars == <<build, answer>>

(***************************************************************************)
(* Bounds of the model.                                                    *)
(***************************************************************************)
\* largest number of binding (non-terminal) nodes in a generated document
MaxBindings == 2
\* largest number of nodes in a node list bound to an `expand` parameter
MaxSpread == 2
\* largest number of errors recorded in one run of the accumulator scenario
MaxErrors == 4
\* largest number of fields of a node handed to the builder
MaxFields == 3
\* largest number of MultiResults in a collected iterator
MaxItems == 3
\* largest number of named fields of a node whose order is permuted
MaxNamed == 3
\* largest number of entries of the root node of a document handed to read_doc
MaxEntries == 2
\* largest number of pair nodes of a map declared in pair-map mode
MaxPairs == 2
\* largest number of fields of one pair node
MaxArity == 3
\* largest number of binding invocations nested in one another that the
\* evaluation walk follows
MaxDepth == 6

(***************************************************************************)
(* Option, KdlValue, KdlEntry, KdlNode.                                    *)
(***************************************************************************)
None == [some |-> FALSE]
Some(x) == [some |-> TRUE, v |-> x]

KString(s) == [kind |-> "String", v |-> s]
KBase10(s) == [kind |-> "Base10", v |-> s]

\* KdlValue::as_string
as_string(value) == IF value.kind = "String" THEN Some(value.v) ELSE None

\* an unnamed argument and a `name=value` property
Arg(value) == [name |-> None, value |-> value]
Prop(name, value) == [name |-> Some(name), value |-> value]

\* a node without a children block, and a node with one (possibly empty)
Leaf(name, entries) == [name |-> name, entries |-> entries, children |-> None]
Block(name, entries, nodes) == [name |-> name, entries |-> entries, children |-> Some(nodes)]

EmptyMap == [k \in {} |-> k]

\* a `let` binding: the value v is computed once and handed to its user F
Let(v, F(_)) == F(v)

(***************************************************************************)
(* multi_err.rs: MultiError and MultiResult.                               *)
(***************************************************************************)
MOk(t) == [tag |-> "Ok", t |-> t, errs |-> <<>>]
MOkErr(t, errs) == [tag |-> "OkErr", t |-> t, errs |-> errs]
MErr(errs) == [tag |-> "Err", errs |-> errs]

\* MultiError::into_result
into_result(errors, ok) == IF errors = <<>> THEN MOk(ok) ELSE MOkErr(ok, errors)

\* MultiError::into_errors
into_errors(errors, err) == MErr(Append(errors, err))

\* MultiError::into_many_errors
into_many_errors(errors, errs) == MErr(errors \o errs)

\* MultiErrorTrait::optionally: the accumulator afterwards and the Option<T>
optionally(errors, res) ==
    CASE res.tag = "Ok" -> [errors |-> errors, opt |-> Some(res.t)]
      [] res.tag = "OkErr" -> [errors |-> errors \o res.errs, opt |-> Some(res.t)]
      [] res.tag = "Err" -> [errors |-> errors \o res.errs, opt |-> None]

\* MultiResult::from(Result<T, E>)
FromResult(res) == IF res.ok THEN MOk(res.v) ELSE MErr(<<res.e>>)

RECURSIVE process_collect(_, _)
\* MultiErrorTrait::process_collect over a sequence of Result<T, E>
process_collect(errors, results) ==
    IF results = <<>> THEN [errors |-> errors, items |-> <<>>]
    ELSE Let(optionally(errors, FromResult(Head(results))), LAMBDA o :
         Let(process_collect(o.errors, Tail(results)), LAMBDA rest :
             [errors |-> rest.errors,
              items |-> (IF o.opt.some THEN <<o.opt.v>> ELSE <<>>) \o rest.items]))

\* MultiResult::unwrap_opt, f applied by the caller to `opt`
unwrap_opt(res) ==
    CASE res.tag = "Ok" -> [opt |-> Some(res.t), errs |-> <<>>]
      [] res.tag = "OkErr" -> [opt |-> Some(res.t), errs |-> res.errs]
      [] res.tag = "Err" -> [opt |-> None, errs |-> res.errs]

\* impl MultiErrorTrait for MultiResult: add_error
add_error(res, err) ==
    CASE res.tag = "Ok" -> MOkErr(res.t, <<err>>)
      [] res.tag = "OkErr" -> MOkErr(res.t, Append(res.errs, err))
      [] res.tag = "Err" -> MErr(Append(res.errs, err))

\* impl MultiErrorTrait for MultiResult: extend_errors
extend_errors(res, additional) ==
    CASE res.tag = "Ok" -> MOkErr(res.t, additional)
      [] res.tag = "OkErr" -> MOkErr(res.t, res.errs \o additional)
      [] res.tag = "Err" -> MErr(res.errs \o additional)

\* MultiResult::combine
combine(res, errors) ==
    CASE errors = <<>> -> res
      [] res.tag = "Ok" -> MOkErr(res.t, errors)
      [] res.tag = "OkErr" -> MOkErr(res.t, res.errs \o errors)
      [] res.tag = "Err" -> MErr(res.errs \o errors)

\* MultiResult::and_then, result_u the value of f(t) (f is not called on Err)
and_then(res, result_u) ==
    CASE res.tag = "Ok" -> result_u
      [] res.tag = "Err" -> MErr(res.errs)
      [] res.tag = "OkErr" -> extend_errors(result_u, res.errs)

\* MultiResult::map_err with the closure that pins every error to `span`
map_err_span(res, span) ==
    IF res.tag = "Ok" THEN res
    ELSE [res EXCEPT !.errs = [i \in 1..Len(res.errs) |-> [res.errs[i] EXCEPT !.at = span]]]

\* the multi_try! macro: the accumulator afterwards, and either the value or
\* the result the enclosing function returns with
multi_try(errors, res) ==
    CASE res.tag = "Ok" -> [returns |-> FALSE, errors |-> errors, t |-> res.t]
      [] res.tag = "OkErr" -> [returns |-> FALSE, errors |-> errors \o res.errs, t |-> res.t]
      [] res.tag = "Err" -> [returns |-> TRUE, result |-> into_many_errors(errors, res.errs)]

(***************************************************************************)
(* err.rs: the errors of the template engine, pinned to the text they      *)
(* point at.                                                               *)
(***************************************************************************)
Error(type, at) == [type |-> type, at |-> at]

(***************************************************************************)
(* template.rs: Tparameter and Declaration.                                *)
(***************************************************************************)
Ok(v) == [ok |-> TRUE, v |-> v]
Err(e) == [ok |-> FALSE, e |-> e]

\* MultiResult::into_result: a value only when there is no error at all
IntoResult(res) == IF res.tag = "Ok" THEN Ok(res.t) ELSE Err(res.errs)

Tparameter(name, kind, value) == [name |-> name, kind |-> kind, value |-> value]

\* impl TryFrom<SpannedEntry> for Tparameter
TparameterFromEntry(entry) ==
    IF ~entry.name.some
    THEN IF entry.value.kind = "String"
         THEN Ok(Tparameter(entry.value.v, "None", None))
         ELSE Err(Error("NonstringParam", entry.value.v))
    ELSE Ok(Tparameter(entry.name.v, "Value", entry.value))

\* impl TryFrom<SpannedNode> for Tparameter; the two unwrap() calls of the
\* `expand` branch abort the program
TparameterFromNode(node) ==
    IF node.name = "expand"
    THEN IF node.entries = <<>> \/ ~as_string(node.entries[1].value).some
         THEN [panic |-> TRUE]
         ELSE [panic |-> FALSE,
               r |-> Ok(Tparameter(as_string(node.entries[1].value).v, "Expand", node.children))]
    ELSE IF node.children.some
         THEN IF Len(node.children.v) = 1
              THEN [panic |-> FALSE, r |-> Ok(Tparameter(node.name, "Node", node.children.v[1]))]
              ELSE [panic |-> FALSE, r |-> Err(Error("BadTemplateNodeParam", node.name))]
         ELSE [panic |-> FALSE, r |-> Err(Error("BadTemplateNodeParam", node.name))]

\* Declaration::new
DeclarationNew(node) ==
    IF ~node.children.some
    THEN [panic |-> FALSE, r |-> into_many_errors(<<>>, <<Error("NoBody", node.name)>>)]
    ELSE LET doc == node.children.v
             entries == [i \in 1..Len(node.entries) |-> TparameterFromEntry(node.entries[i])]
             node_count == Len(doc)
         IN Let(process_collect(<<>>, entries), LAMBDA first :
            IF node_count = 0
            THEN [panic |-> FALSE, r |-> into_errors(first.errors, Error("NoBody", node.name))]
            ELSE Let([i \in 1..(node_count - 1) |-> TparameterFromNode(doc[i])], LAMBDA param_nodes :
                 IF \E i \in 1..(node_count - 1) : param_nodes[i].panic
                 THEN [panic |-> TRUE]
                 ELSE Let(process_collect(first.errors,
                            [i \in 1..(node_count - 1) |-> param_nodes[i].r]), LAMBDA second :
                      [panic |-> FALSE,
                       r |-> into_result(second.errors,
                               [body |-> doc[node_count],
                                params |-> first.items \o second.items])])))

\* Declaration::param_named
param_named(declaration, name) ==
    LET found == {i \in 1..Len(declaration.params) : declaration.params[i].name = name}
    IN IF found = {} THEN None
       ELSE Some(declaration.params[CHOOSE i \in found : \A j \in found : i <= j])

\* a lookup that takes the index as counted from 1
ParamAtOneBased(declaration, index) ==
    IF 1 <= index /\ index <= Len(declaration.params)
    THEN Some(declaration.params[index]) ELSE None

\* Declaration::param_at, index counted from 0 as in the source
param_at(declaration, index) ==
    IF index + 1 <= Len(declaration.params) THEN Some(declaration.params[index + 1]) ELSE None

(***************************************************************************)
(* bindings.rs: Binding and the Bindings chain.  A chain is named by the   *)
(* number of local bindings it holds: chain k is Local(bindings[k]), whose *)
(* tail is bindings[k].bindings; chain 0 is the chain read_document was    *)
(* seeded with (`required`); Terminal is the empty chain.                  *)
(***************************************************************************)
Terminal == -1

\* Binding::new
BindingNew(node, chain) ==
    Let(DeclarationNew(node), LAMBDA d :
        IF d.panic THEN [panic |-> TRUE]
        ELSE Let(unwrap_opt(d.r), LAMBDA u :
             [panic |-> FALSE,
              binding |-> [name |-> node.name, declaration |-> u.opt, bindings |-> chain],
              errs |-> u.errs]))

(***************************************************************************)
(* template.rs: Context, Targuments, NodeThunk, EntryThunk, FieldThunk.    *)
(* `env` carries the binding list and the seed chain the chain numbers     *)
(* refer to.                                                               *)
(***************************************************************************)
Targuments(values, nodes, expand) == [values |-> values, nodes |-> nodes, expand |-> expand]

\* Targuments::default
NoArguments == Targuments(EmptyMap, EmptyMap, EmptyMap)

Context(chain, targs) == [bindings |-> chain, arguments |-> targs]

\* Context::new
ContextNew(chain) == Context(chain, NoArguments)

\* NodeThunk::new
NodeThunk(body, context) == [body |-> body, context |-> context]

Env(bs, req) == [bindings |-> bs, required |-> req]

RECURSIVE VisitOldestFirst(_, _)
\* the search order of a scope that would let the first declaration of a name
\* win over the later ones
VisitOldestFirst(env, chain) ==
    IF chain = Terminal THEN <<>>
    ELSE IF chain = 0
         THEN [i \in 1..Len(env.required) |-> env.required[i].binding]
         ELSE VisitOldestFirst(env, env.bindings[chain].bindings) \o <<env.bindings[chain]>>

RECURSIVE visit(_, _)
\* Bindings::visit / BindingsIter::next: the bindings of a chain, the most
\* recently declared first; an Imports chain yields its exposed bindings in
\* list order
visit(env, chain) ==
    IF chain = Terminal THEN <<>>
    ELSE IF chain = 0
         THEN [i \in 1..Len(env.required) |-> env.required[i].binding]
         ELSE <<env.bindings[chain]>> \o visit(env, env.bindings[chain].bindings)

\* Targuments::value
ArgumentsValue(targs, key) ==
    IF as_string(key).some /\ as_string(key).v \in DOMAIN targs.values
    THEN Some(targs.values[as_string(key).v])
    ELSE None

\* Targuments::ident
ArgumentsIdent(targs, key) ==
    IF key \in DOMAIN targs.values
    THEN as_string(targs.values[key])
    ELSE None

\* NodeThunk::name
ThunkName(thunk) ==
    Let(ArgumentsIdent(thunk.context.arguments, thunk.body.name), LAMBDA ident :
        IF ident.some THEN ident.v ELSE thunk.body.name)

\* EntryThunk::value
EntryValue(entry, context) ==
    Let(ArgumentsValue(context.arguments, entry.value), LAMBDA bound :
        IF bound.some THEN bound.v ELSE entry.value)

\* FieldThunk::new: a field named `-` is an unnamed field
FieldThunk(name, kind, value) ==
    [name |-> IF name.some /\ name.v = "-" THEN None ELSE name, kind |-> kind, value |-> value]

\* impl From<EntryThunk> for FieldThunk
FieldFromEntry(entry, context) == FieldThunk(entry.name, "Value", EntryValue(entry, context))

\* impl From<NodeThunk> for FieldThunk
FieldFromNode(thunk) == FieldThunk(Some(thunk.body.name), "Node", thunk)

\* NodeThunk::entries turned into fields
EntryFields(thunk) ==
    [i \in 1..Len(thunk.body.entries) |-> FieldFromEntry(thunk.body.entries[i], thunk.context)]

RawChildren(node) == IF node.children.some THEN node.children.v ELSE <<>>

RECURSIVE Flatten(_)
\* Iterator::flat_map over the per-child replacement lists
Flatten(groups) == IF groups = <<>> THEN <<>> ELSE Head(groups) \o Flatten(Tail(groups))

\* the defaults of Declaration::arguments (first loop), as one map per kind
RECURSIVE DefaultArguments(_, _, _)
DefaultArguments(params, chain, targs) ==
    IF params = <<>> THEN targs
    ELSE LET param == Head(params)
             next ==
               CASE param.kind = "Expand" /\ param.value.some ->
                      [targs EXCEPT !.expand =
                         (param.name :> [i \in 1..Len(param.value.v) |->
                                           NodeThunk(param.value.v[i], ContextNew(chain))]) @@ @]
                 [] param.kind = "Node" ->
                      [targs EXCEPT !.nodes =
                         (param.name :> NodeThunk(param.value, ContextNew(chain))) @@ @]
                 [] param.kind = "Value" ->
                      [targs EXCEPT !.values = (param.name :> param.value) @@ @]
                 [] OTHER -> targs
         IN DefaultArguments(Tail(params), chain, next)

RECURSIVE children(_, _)
RECURSIVE ExpandChildren(_, _, _)
RECURSIVE expand(_, _, _)
RECURSIVE invoke(_, _, _)
RECURSIVE try_invoke(_, _, _)
RECURSIVE call(_, _, _, _)
RECURSIVE arguments(_, _, _, _)
RECURSIVE CallArguments(_, _, _, _, _)

\* the second loop of Declaration::arguments, over the fields of the call
CallArguments(env, declaration, fields, i, acc0) ==
    IF i > Len(fields) THEN [panic |-> FALSE, out |-> acc0]
    ELSE LET field == fields[i]
         IN Let(param_at(declaration, i - 1), LAMBDA at :
            IF field.kind = "Value"
            THEN Let(IF field.name.some THEN param_named(declaration, field.name.v) ELSE at,
                     LAMBDA param :
                     CallArguments(env, declaration, fields, i + 1,
                       IF param.some
                       THEN [acc0 EXCEPT !.values = (param.v.name :> field.value) @@ @]
                       ELSE acc0))
            ELSE IF at.some /\ at.v.kind = "Expand"
                 THEN Let(children(env, field.value), LAMBDA spread :
                      IF spread.panic THEN [panic |-> TRUE, out |-> acc0]
                      ELSE CallArguments(env, declaration, fields, i + 1,
                             [acc0 EXCEPT !.expand = (at.v.name :> Flatten(spread.out)) @@ @]))
                 ELSE IF at.some
                      THEN CallArguments(env, declaration, fields, i + 1,
                             [acc0 EXCEPT !.nodes = (at.v.name :> field.value) @@ @])
                      ELSE CallArguments(env, declaration, fields, i + 1, acc0))

\* Declaration::arguments: the Targuments of an invocation `invocation` of a
\* declaration whose defaults live in chain `chain`
arguments(env, declaration, invocation, chain) ==
    Let(DefaultArguments(declaration.params, chain, NoArguments), LAMBDA defaults :
    Let(children(env, invocation), LAMBDA nodes :
        IF nodes.panic THEN [panic |-> TRUE, out |-> defaults]
        ELSE Let(Flatten(nodes.out), LAMBDA flat :
             CallArguments(env, declaration,
               EntryFields(invocation) \o [i \in 1..Len(flat) |-> FieldFromNode(flat[i])],
               1, defaults))))

\* dynamic scoping: the body would be expanded in the scope of the call site
CallSiteScope(binding, invocation) == invocation.context.bindings

\* a scope that also holds the binding itself, as a template that may invoke
\* itself would need
BodySeesItself(binding, invocation) == binding.bindings + 1

\* the scope a declaration's body is expanded in: the chain of the binding
BodyScope(binding, invocation) == binding.bindings

\* Declaration::call as Binding::try_invoke builds it: the body paired with
\* the arguments and the binding's chain
call(env, binding, declaration, invocation) ==
    Let(BodyScope(binding, invocation), LAMBDA scope :
    Let(arguments(env, declaration, invocation, scope), LAMBDA args :
        IF args.panic THEN [panic |-> TRUE, out |-> None]
        ELSE [panic |-> FALSE,
              out |-> Some(NodeThunk(declaration.body, Context(scope, args.out)))]))

\* Binding::try_invoke
try_invoke(env, binding, invocation) ==
    IF binding.name # ThunkName(invocation) THEN [panic |-> FALSE, out |-> None]
    ELSE IF ~binding.declaration.some THEN [panic |-> FALSE, out |-> None]
         ELSE call(env, binding, binding.declaration.v, invocation)

\* Bindings::invoke: find_map over the visited bindings
invoke(env, visited, invocation) ==
    IF visited = <<>> THEN [panic |-> FALSE, out |-> None]
    ELSE Let(try_invoke(env, Head(visited), invocation), LAMBDA tried :
         IF tried.panic \/ tried.out.some THEN tried
         ELSE invoke(env, Tail(visited), invocation))

\* an expansion that looks for a binding of the name before it looks at the
\* node arguments of the context
ExpandBindingFirst(env, context, invocation) ==
    Let(invoke(env, visit(env, context.bindings), invocation), LAMBDA found :
        IF found.panic THEN [panic |-> TRUE, out |-> <<>>]
        ELSE IF found.out.some THEN [panic |-> FALSE, out |-> <<found.out.v>>]
        ELSE IF invocation.body.entries = <<>> /\ RawChildren(invocation.body) = <<>>
                /\ ThunkName(invocation) \in DOMAIN context.arguments.nodes
             THEN [panic |-> FALSE, out |-> <<context.arguments.nodes[ThunkName(invocation)]>>]
             ELSE [panic |-> FALSE, out |-> <<>>])

\* Context::expand: the replacement of one child, empty when nothing applies
expand(env, context, invocation) ==
    LET raw == RawChildren(invocation.body)
        no_fields == invocation.body.entries = <<>> /\ raw = <<>>
    IN Let(ThunkName(invocation), LAMBDA invoke_name :
       \* invocation.fields().next(): the first child is expanded to learn
       \* whether there is a first field
       Let(IF invocation.body.entries = <<>> /\ raw # <<>>
           THEN expand(env, invocation.context, NodeThunk(raw[1], invocation.context))
           ELSE [panic |-> FALSE, out |-> <<>>], LAMBDA first :
       IF first.panic THEN [panic |-> TRUE, out |-> <<>>]
       ELSE IF no_fields /\ invoke_name \in DOMAIN context.arguments.nodes
            THEN [panic |-> FALSE, out |-> <<context.arguments.nodes[invoke_name]>>]
            ELSE IF invoke_name = "expand"
                 THEN IF invocation.body.entries = <<>>
                      THEN [panic |-> TRUE, out |-> <<>>]
                      ELSE Let(as_string(EntryValue(invocation.body.entries[1],
                                                    invocation.context)), LAMBDA expand_name :
                           IF ~expand_name.some
                              \/ expand_name.v \notin DOMAIN context.arguments.expand
                           THEN [panic |-> TRUE, out |-> <<>>]
                           ELSE [panic |-> FALSE, out |-> context.arguments.expand[expand_name.v]])
                 ELSE Let(invoke(env, visit(env, context.bindings), invocation), LAMBDA found :
                      IF found.panic THEN [panic |-> TRUE, out |-> <<>>]
                      ELSE [panic |-> FALSE,
                            out |-> IF found.out.some THEN <<found.out.v>> ELSE <<>>])))

\* the closure with_param_expanded of NodeThunk::children, per raw child
ExpandChildren(env, context, raw) ==
    IF raw = <<>> THEN [panic |-> FALSE, out |-> <<>>]
    ELSE LET body == NodeThunk(Head(raw), context)
         IN Let(expand(env, context, body), LAMBDA replacement :
            IF replacement.panic THEN [panic |-> TRUE, out |-> <<>>]
            ELSE Let(ExpandChildren(env, context, Tail(raw)), LAMBDA rest :
                 IF rest.panic THEN rest
                 ELSE [panic |-> FALSE,
                       out |-> <<IF replacement.out = <<>> THEN <<body>> ELSE replacement.out>>
                               \o rest.out]))

\* NodeThunk::children: for every raw child the thunks it is replaced by;
\* the iterator yields them flattened
children(env, thunk) == ExpandChildren(env, thunk.context, RawChildren(thunk.body))

(***************************************************************************)
(* multi_err.rs: collecting an iterator of MultiResults.                   *)
(***************************************************************************)
RECURSIVE CollectItems(_, _, _, _)
CollectItems(results, errors, items, had_any_ok) ==
    IF results = <<>> THEN [errors |-> errors, items |-> items, had_any_ok |-> had_any_ok]
    ELSE Let(optionally(errors, Head(results)), LAMBDA o :
         CollectItems(Tail(results), o.errors,
                      IF o.opt.some THEN Append(items, o.opt.v) ELSE items,
                      had_any_ok \/ o.opt.some))

\* a collection that stops at the first item without a value, as the
\* collection of an iterator of Result does
FromIterShortCircuit(results) ==
    LET failed == {i \in 1..Len(results) : results[i].tag = "Err"}
        stop == IF failed = {} THEN Len(results)
                ELSE CHOOSE i \in failed : \A j \in failed : i <= j
    IN Let(CollectItems(SubSeq(results, 1, stop), <<>>, <<>>, FALSE), LAMBDA c :
           IF c.errors = <<>> THEN MOk(c.items)
           ELSE IF failed = {} THEN MOkErr(c.items, c.errors)
                ELSE MErr(c.errors))

\* impl FromIterator<MultiResult<A, E>> for MultiResult<V, E>
from_iter(results) ==
    Let(CollectItems(results, <<>>, <<>>, FALSE), LAMBDA c :
        IF c.errors = <<>> THEN MOk(c.items)
        ELSE IF c.had_any_ok THEN MOkErr(c.items, c.errors)
             ELSE MErr(c.errors))

(***************************************************************************)
(* template.rs: NodeThunk::evaluate and EntryThunk::evaluate.              *)
(***************************************************************************)
\* EntryThunk::evaluate
EvaluateEntry(entry, context) == [name |-> entry.name, value |-> EntryValue(entry, context)]

RECURSIVE evaluate(_, _)
\* NodeThunk::evaluate
evaluate(env, thunk) ==
    Let(children(env, thunk), LAMBDA nodes :
        IF nodes.panic THEN [panic |-> TRUE]
        ELSE Let(Flatten(nodes.out), LAMBDA flat :
             Let([i \in 1..Len(flat) |-> evaluate(env, flat[i])], LAMBDA each :
             IF \E i \in 1..Len(flat) : each[i].panic THEN [panic |-> TRUE]
             ELSE Let(from_iter([i \in 1..Len(flat) |-> each[i].r]), LAMBDA collected :
                  Let([i \in 1..Len(thunk.body.entries) |->
                         EvaluateEntry(thunk.body.entries[i], thunk.context)], LAMBDA entries :
                  IF collected.tag = "Err"
                  THEN [panic |-> FALSE, r |-> into_many_errors(<<>>, collected.errs)]
                  ELSE [panic |-> FALSE,
                        r |-> into_result(collected.errs,
                                IF collected.t = <<>>
                                THEN Leaf(thunk.body.name, entries)
                                ELSE Block(thunk.body.name, entries, collected.t))])))))

(***************************************************************************)
(* lib.rs and import.rs: the document driver.                              *)
(***************************************************************************)
\* import::has_node
has_node(doc) == IF doc = <<>> THEN FALSE ELSE doc[1].name = "import"

\* the (from, to) pairs ExportedBindings::from_export reads off the export
\* node: the named entries whose value is a string
ExportNames(exposed) ==
    LET named == {i \in 1..Len(exposed.entries) :
                    exposed.entries[i].name.some /\ as_string(exposed.entries[i].value).some}
    IN [from \in {exposed.entries[i].name.v : i \in named} |->
          LET first == CHOOSE i \in named :
                         /\ exposed.entries[i].name.v = from
                         /\ \A j \in named : exposed.entries[j].name.v = from => i <= j
          IN exposed.entries[first].value.v]

\* Bindings::exports
exports(env, chain, names) ==
    Let(SelectSeq(visit(env, chain), LAMBDA b : b.name \in DOMAIN names), LAMBDA keep :
        [i \in 1..Len(keep) |-> [keep[i] EXCEPT !.name = names[keep[i].name]]])

RECURSIVE FoldBindings(_, _, _)
\* the fold of read_document over the binding nodes
FoldBindings(nodes, bs, errors) ==
    IF nodes = <<>> THEN [panic |-> FALSE, bindings |-> bs, errors |-> errors]
    ELSE Let(BindingNew(Head(nodes), Len(bs)), LAMBDA new :
         IF new.panic THEN [panic |-> TRUE, bindings |-> bs, errors |-> errors]
         ELSE FoldBindings(Tail(nodes), Append(bs, new.binding), errors \o new.errs))

Min(a, b) == IF a <= b THEN a ELSE b

\* the number of nodes read_document leaves out of the fold at the front
Skipped(doc) == IF has_node(doc) THEN 1 ELSE 0

\* all_nodes.by_ref().take(node_count - 1) after the import node was consumed
Taken(doc) == Min(Len(doc) - 1, Len(doc) - Skipped(doc))

\* read_document
read_document(doc, req) ==
    IF Len(doc) = 0
    THEN [panic |-> FALSE, bindings |-> <<>>,
          result |-> into_errors(<<>>, Error("Empty", "document"))]
    ELSE LET skipped == Skipped(doc)
             taken == Taken(doc)
         IN Let(FoldBindings(SubSeq(doc, skipped + 1, skipped + taken), <<>>, <<>>), LAMBDA folded :
            LET env == Env(folded.bindings, req)
                chain == Len(folded.bindings)
            IN IF folded.panic \/ skipped + taken >= Len(doc)
               THEN [panic |-> TRUE, bindings |-> folded.bindings, result |-> None]
               ELSE LET last_node == doc[skipped + taken + 1]
                    IN IF last_node.name = "export"
                       THEN [panic |-> FALSE, bindings |-> folded.bindings,
                             result |-> into_result(folded.errors,
                                          [kind |-> "Exports",
                                           exports |-> exports(env, chain, ExportNames(last_node))])]
                       ELSE [panic |-> FALSE, bindings |-> folded.bindings,
                             result |-> into_result(folded.errors,
                                          [kind |-> "Node",
                                           node |-> NodeThunk(last_node, ContextNew(chain))])])

(***************************************************************************)
(* The documents the driver is run on: up to MaxBindings template          *)
(* declarations (preceded or not by an `import` node) and a last node.     *)
(***************************************************************************)
DeclNames == {"t", "u"}
Other(n) == IF n = "t" THEN "u" ELSE "t"

SpreadNames == <<"A", "B", "C", "D", "E">>
SpreadList(m) == [i \in 1..m |-> Leaf(SpreadNames[i], <<>>)]

\* greet name="world" { Msg "name" }
Greet(n) == Block(n, <<Prop("name", KString("world"))>>,
                  <<Leaf("Msg", <<Arg(KString("name"))>>)>>)
\* one parameter without default, one with
Two(n) == Block(n, <<Arg(KString("a")), Prop("name", KString("world"))>>,
                <<Leaf("Msg", <<Arg(KString("a")), Arg(KString("name"))>>)>>)
\* a node parameter `p` whose default invokes the other template
NodeParam(n) == Block(n, <<>>,
                      <<Block("p", <<>>, <<Block("Dflt", <<>>, <<Leaf(Other(n), <<>>)>>)>>),
                        Block("Body", <<>>, <<Leaf("p", <<>>)>>)>>)
SpreadBody == Block("Body", <<>>, <<Leaf("X", <<>>), Leaf("expand", <<Arg(KString("p"))>>)>>)
\* a node-list parameter `p` with a default list of m nodes
Spread(n, m) == Block(n, <<>>, <<Block("expand", <<Arg(KString("p"))>>, SpreadList(m)), SpreadBody>>)
\* a node-list parameter `p` without default list
ExpandNone(n) == Block(n, <<>>, <<Leaf("expand", <<Arg(KString("p"))>>), SpreadBody>>)
\* `expand` parameters without a usable name
ExpandNoArg(n) == Block(n, <<>>, <<Leaf("expand", <<>>), Leaf("Body", <<>>)>>)
ExpandNonString(n) == Block(n, <<>>, <<Leaf("expand", <<Arg(KBase10("1"))>>), Leaf("Body", <<>>)>>)
\* the three malformed declarations
NoBody(n) == Leaf(n, <<>>)
NonStr(n) == Block(n, <<Arg(KBase10("1"))>>, <<Leaf("NS", <<>>)>>)
BadNode(n) == Block(n, <<>>, <<Leaf("p", <<>>), Leaf("BN", <<>>)>>)
\* a body that invokes both template names
Calls(n) == Block(n, <<>>, <<Block("Calls", <<>>, <<Leaf("t", <<>>), Leaf("u", <<>>)>>)>>)
Plain(n) == Block(n, <<>>, <<Leaf("Plain", <<>>)>>)
\* a body holding an `expand` without argument
BodyExpand(n) == Block(n, <<>>, <<Block("Body", <<>>, <<Leaf("expand", <<>>)>>)>>)

Decls ==
    {Greet("t"), Two("t"), NodeParam("t"), ExpandNone("t"), ExpandNoArg("t"),
     ExpandNonString("t"), NoBody("t"), NonStr("t"), BadNode("t"), Calls("t"),
     Plain("t"), BodyExpand("t"), Plain("u"), Calls("u")}
    \cup {Spread("t", m) : m \in 0..MaxSpread}

Root(nodes) == Block("Root", <<>>, nodes)

\* the nodes a document ends with
LocalRoots ==
    {Root(<<Leaf("t", <<>>)>>),
     Root(<<Leaf("u", <<>>)>>),
     Root(<<Leaf("t", <<Arg(KString("Bob"))>>)>>),
     Root(<<Leaf("t", <<Prop("name", KString("Bob"))>>)>>),
     Root(<<Leaf("t", <<Arg(KString("Al")), Arg(KString("Bob"))>>)>>),
     Root(<<Block("t", <<>>, <<Block("Arg", <<>>, SpreadList(2))>>)>>),
     Root(<<Leaf("x", <<>>)>>),
     Root(<<Leaf("expand", <<Arg(KString("p"))>>)>>),
     Leaf("export", <<Prop("t", KString("pub")), Arg(KString("u"))>>)}

\* the nodes that name an imported template
ImportRoots == {Root(<<Leaf("loc", <<>>)>>), Root(<<Leaf("pub", <<>>)>>)}

ImportNode == Leaf("import", <<Prop("loc", KString("file/pub"))>>)

RECURSIVE SeqsUpTo(_, _)
\* the sequences over S of length at most n
SeqsUpTo(S, n) ==
    IF n <= 0 THEN {<<>>}
    ELSE LET shorter == SeqsUpTo(S, n - 1)
         IN shorter \cup {Append(q, x) : q \in shorter, x \in S}

Documents ==
    {<<>>}
    \cup {q \o <<r>> : q \in SeqsUpTo(Decls, MaxBindings), r \in LocalRoots \cup ImportRoots}
    \cup {<<ImportNode>> \o q : q \in SeqsUpTo(Decls \cup LocalRoots, 1)}
    \cup {<<ImportNode>> \o q \o <<r>> :
            q \in SeqsUpTo(Decls, 1), r \in LocalRoots \cup ImportRoots}

\* the binding another file exports as `pub`, imported here as `loc`
Imported == [local |-> "loc",
             binding |-> [name |-> "pub",
                          declaration |-> Some([body |-> Leaf("Imp", <<>>), params |-> <<>>]),
                          bindings |-> Terminal]]

\* RequiredBindings: the exposed list of Bindings::Imports (empty: Terminal)
RequiredSets == {<<>>, <<Imported>>}

(***************************************************************************)
(* The driver as a state machine: read the document, then walk the thunks  *)
(* on demand or evaluate the root.                                         *)
(***************************************************************************)
Init ==
    /\ pc = "parsed"
    /\ document \in Documents
    /\ required \in RequiredSets
    /\ required # <<>> =>
          /\ document # <<>>
          /\ has_node(document) \/ document[Len(document)] \in ImportRoots
    /\ bindings = <<>>
    /\ result = None
    /\ parent = None
    /\ kids = <<>>
    /\ evaluated = None
    /\ accum = <<>>
    /\ acc = None
    /\ log = <<>>
    /\ build = None
    /\ answer = None

\* read_document(document, required)
ReadDocument ==
    /\ pc = "parsed"
    /\ \E r \in {read_document(document, required)} :
          /\ pc' = IF r.panic THEN "panic" ELSE "read"
          /\ bindings' = r.bindings
          /\ result' = r.result
    /\ UNCHANGED <<document, required, parent, kids, evaluated, multiVars, buildVars>>

HasRoot == pc = "read" /\ result.tag # "Err" /\ result.t.kind = "Node"

\* the consumer asks `thunk` for its children
Request(thunk) ==
    \E c \in {children(Env(bindings, required), thunk)} :
       /\ parent' = thunk
       /\ pc' = IF c.panic THEN "panic" ELSE "children"
       /\ kids' = c.out
       /\ UNCHANGED <<document, required, bindings, result, evaluated, multiVars, buildVars>>

\* NodeThunk::children on the root node of the document
RootChildren ==
    /\ HasRoot
    /\ Request(result.t.node)

\* NodeThunk::children on one of the thunks yielded before
Descend ==
    /\ pc = "children"
    /\ \E i \in 1..Len(Flatten(kids)) : Request(Flatten(kids)[i])

\* NodeThunk::evaluate on the root node of the document
Evaluate ==
    /\ HasRoot
    /\ \E e \in {evaluate(Env(bindings, required), result.t.node)} :
          /\ pc' = IF e.panic THEN "panic" ELSE "evaluated"
          /\ evaluated' = IF e.panic THEN None ELSE e.r
    /\ parent' = result.t.node
    /\ UNCHANGED <<document, required, bindings, result, kids, multiVars, buildVars>>

Next == ReadDocument \/ RootChildren \/ Descend \/ Evaluate

Spec == Init /\ [][Next]_vars

(***************************************************************************)
(* Properties of the expansion engine.  They are stated on the state the   *)
(* consumer sees after asking `parent` for its children: kids[i] holds the *)
(* thunks that replaced the i-th raw child of `parent`.                    *)
(***************************************************************************)
Walking == pc = "children"

Raw == RawChildren(parent.body)

\* the i-th child as it is yielded when nothing replaces it
Unchanged(i) == NodeThunk(Raw[i], parent.context)

ChildName(i) == ThunkName(Unchanged(i))

\* the child is a bare name for which the context holds a node argument
IsArgument(i) ==
    /\ Raw[i].entries = <<>>
    /\ RawChildren(Raw[i]) = <<>>
    /\ ChildName(i) \in DOMAIN parent.context.arguments.nodes

IsSpread(i) == ~IsArgument(i) /\ ChildName(i) = "expand"

IsInvocation(i) == ~IsArgument(i) /\ ~IsSpread(i)

\* the local bindings in the scope of `parent` that can expand the child
LocalCandidates(i) ==
    {k \in 1..parent.context.bindings :
        bindings[k].name = ChildName(i) /\ bindings[k].declaration.some}

\* the imported bindings in the scope of `parent` that can expand the child
ImportedCandidates(i) ==
    IF parent.context.bindings < 0 THEN {}
    ELSE {j \in 1..Len(required) :
            required[j].binding.name = ChildName(i) /\ required[j].binding.declaration.some}

Largest(S) == CHOOSE x \in S : \A y \in S : y <= x
Smallest(S) == CHOOSE x \in S : \A y \in S : x <= y

Reverse(q) == [i \in 1..Len(q) |-> q[Len(q) + 1 - i]]

\* chain k holds exactly the first k local bindings, on top of the imports
HoldsFirst(k) ==
    visit(Env(bindings, required), k)
        = Reverse(SubSeq(bindings, 1, k)) \o [j \in 1..Len(required) |-> required[j].binding]

\* C1: a child expanded by the binding B = bindings[k] becomes B's body in a
\* context whose scope is the chain of the bindings declared strictly before
\* B, B is in the scope of the parent, and a child that only names bindings
\* declared after the parent's scope is yielded unexpanded
C1_LexicalScope ==
    Walking =>
      \A i \in 1..Len(Raw) :
        IsInvocation(i) =>
          /\ (LocalCandidates(i) = {} /\ ImportedCandidates(i) = {})
                => kids[i] = <<Unchanged(i)>>
          /\ LocalCandidates(i) # {}
                => \E k \in LocalCandidates(i) :
                      /\ Len(kids[i]) = 1
                      /\ kids[i][1].body = bindings[k].declaration.v.body
                      /\ kids[i][1].context.bindings = k - 1
                      /\ HoldsFirst(k - 1)

\* C1 witness: in the body of a template, one child names a template declared
\* before it and is expanded, another names one declared later and is not
C1_Witness ==
    /\ Walking
    /\ parent.context.bindings < Len(bindings)
    /\ \E i, j \in 1..Len(Raw) :
          /\ IsInvocation(i) /\ LocalCandidates(i) # {}
          /\ kids[i] # <<Unchanged(i)>>
          /\ IsInvocation(j) /\ LocalCandidates(j) = {}
          /\ \E k \in (parent.context.bindings + 1)..Len(bindings) :
                bindings[k].name = ChildName(j) /\ bindings[k].declaration.some
          /\ kids[j] = <<Unchanged(j)>>

\* C2: the binding invoked for a child is the most recently declared one in
\* scope that has the child's name and a declaration (imports come last, in
\* list order); without any the child is yielded unchanged with the
\* parent's context
C2_InnermostBinding ==
    Walking =>
      \A i \in 1..Len(Raw) :
        IsInvocation(i) =>
          IF LocalCandidates(i) # {}
          THEN LET b == bindings[Largest(LocalCandidates(i))]
               IN /\ Len(kids[i]) = 1
                  /\ kids[i][1].body = b.declaration.v.body
                  /\ kids[i][1].context.bindings = b.bindings
          ELSE IF ImportedCandidates(i) # {}
               THEN LET b == required[Smallest(ImportedCandidates(i))].binding
                    IN /\ Len(kids[i]) = 1
                       /\ kids[i][1].body = b.declaration.v.body
                       /\ kids[i][1].context.bindings = b.bindings
               ELSE /\ kids[i] = <<Unchanged(i)>>
                    /\ kids[i][1].context = parent.context

\* C2 witness: two bindings in scope carry the child's name and the later
\* one was invoked
C2_Witness ==
    /\ Walking
    /\ \E i \in 1..Len(Raw) :
          /\ IsInvocation(i)
          /\ Cardinality(LocalCandidates(i)) >= 2
          /\ kids[i][1].context.bindings = Largest(LocalCandidates(i)) - 1
          /\ \E k \in LocalCandidates(i) :
                bindings[k].declaration.v.body # kids[i][1].body

(***************************************************************************)
(* Properties of declarations and of the document driver.                  *)
(***************************************************************************)
\* read_document returned
Returned == pc \in {"read", "children", "evaluated"}

\* the declaration node has no body, a non-string unnamed parameter, or a
\* parameter node without exactly one child
Malformed(node) ==
    \/ RawChildren(node) = <<>>
    \/ \E i \in 1..Len(node.entries) :
          ~node.entries[i].name.some /\ node.entries[i].value.kind # "String"
    \/ \E i \in 1..(Len(RawChildren(node)) - 1) :
          /\ node.children.v[i].name # "expand"
          /\ Len(RawChildren(node.children.v[i])) # 1

\* C3: the binding of a malformed declaration keeps its name and holds no
\* declaration, and a child that names only malformed declarations is
\* yielded unchanged
C3_MalformedNeverExpands ==
    /\ (Returned /\ ~has_node(document)) =>
          \A k \in 1..Len(bindings) :
            Malformed(document[k]) =>
              /\ bindings[k].name = document[k].name
              /\ ~bindings[k].declaration.some
    /\ (Walking /\ ~has_node(document)) =>
          \A i \in 1..Len(Raw) :
            (/\ IsInvocation(i)
             /\ ImportedCandidates(i) = {}
             /\ \A k \in 1..parent.context.bindings :
                   bindings[k].name = ChildName(i) => Malformed(document[k]))
              => kids[i] = <<Unchanged(i)>>

\* C4: neither read_document nor a later request for children or for the
\* evaluation of the root aborts
C4_NeverPanics == ~has_node(document) => pc # "panic"

\* the last node of the document resolved on top of `count` local bindings
Resolved(count) ==
    LET last_node == document[Len(document)]
    IN /\ result # None
       /\ result.tag # "Err"
       /\ IF last_node.name = "export"
          THEN /\ result.t.kind = "Exports"
               /\ result.t.exports
                    = exports(Env(bindings, required), count, ExportNames(last_node))
          ELSE result.t = [kind |-> "Node", node |-> NodeThunk(last_node, ContextNew(count))]

\* the nodes document[first..first+count-1] were folded, one binding each, in
\* document order
Folded(first, count) ==
    /\ Len(bindings) = count
    /\ \A k \in 1..Len(bindings) :
          /\ bindings[k].name = document[first + k - 1].name
          /\ bindings[k].bindings = k - 1
    /\ \A k \in 0..Len(bindings) : HoldsFirst(k)

\* C5: without import node, once read_document was called on N >= 1 nodes the
\* nodes 1..N-1 are bindings in document order and node N is the root or the
\* export table; the result carries a Document
C5_FoldAllButLast ==
    (pc # "parsed" /\ document # <<>> /\ ~has_node(document)) =>
        /\ Folded(1, Len(document) - 1)
        /\ Resolved(Len(document) - 1)

\* C6: with an import node first and at least one more node, the nodes
\* strictly between the import node and the last node are the bindings and
\* the last node is the root or the export table
C6_ImportSeedsScope ==
    (/\ pc # "parsed"
     /\ has_node(document)
     /\ Len(document) >= 2
     /\ \A i \in 2..(Len(document) - 1) : ~DeclarationNew(document[i]).panic) =>
        /\ pc # "panic"
        /\ Folded(2, Len(document) - 2)
        /\ Resolved(Len(document) - 2)

(***************************************************************************)
(* Properties of the arguments of an invocation.                           *)
(***************************************************************************)
\* the entries of the call that bind the parameter named q: the ones named
\* q, and the unnamed one at the position of a parameter named q
Binders(declaration, site, q) ==
    {j \in 1..Len(site.entries) :
        LET named == site.entries[j].name.some /\ site.entries[j].name.v # "-"
        IN IF named THEN site.entries[j].name.v = q
           ELSE j <= Len(declaration.params) /\ declaration.params[j].name = q}

\* the parameters named q that declare a default of the kind
Defaults(declaration, q, kind) ==
    {j \in 1..Len(declaration.params) :
        /\ declaration.params[j].name = q
        /\ declaration.params[j].kind = kind
        /\ kind = "Expand" => declaration.params[j].value.some}

ParamNames(declaration) == {declaration.params[j].name : j \in 1..Len(declaration.params)}

\* the arguments the invocation `site` of bindings[k] must be expanded with
BoundAsDeclared(k, site, targs) ==
    LET declaration == bindings[k].declaration.v
    IN /\ DOMAIN targs.values \subseteq ParamNames(declaration)
       /\ \A q \in ParamNames(declaration) :
            LET binders == Binders(declaration, site, q)
                values == Defaults(declaration, q, "Value")
                nodes == Defaults(declaration, q, "Node")
                lists == Defaults(declaration, q, "Expand")
            IN /\ IF binders # {}
                  THEN /\ q \in DOMAIN targs.values
                       /\ targs.values[q]
                            = EntryValue(site.entries[Largest(binders)], parent.context)
                  ELSE IF values # {}
                       THEN /\ q \in DOMAIN targs.values
                            /\ targs.values[q] = declaration.params[Largest(values)].value
                       ELSE q \notin DOMAIN targs.values
               /\ (nodes # {} /\ RawChildren(site) = <<>>) =>
                    /\ q \in DOMAIN targs.nodes
                    /\ targs.nodes[q]
                         = NodeThunk(declaration.params[Largest(nodes)].value, ContextNew(k - 1))
               /\ (lists # {} /\ RawChildren(site) = <<>>) =>
                    /\ q \in DOMAIN targs.expand
                    /\ LET list == declaration.params[Largest(lists)].value.v
                       IN targs.expand[q]
                            = [j \in 1..Len(list) |-> NodeThunk(list[j], ContextNew(k - 1))]

\* the document `declaration; Root { call }` evaluates to Root { expected }
Yields(declaration, site, expected) ==
    (pc = "evaluated" /\ document = <<declaration, Root(<<site>>)>>)
        => evaluated = MOk(Root(<<expected>>))

\* C7: an invocation binds named value arguments by name and unnamed ones by
\* position, unbound parameters take their defaults (node defaults in the
\* declaring scope), and body entries naming a value parameter evaluate to
\* the bound value: `greet` yields Msg "world", `greet name="Bob"` Msg "Bob"
C7_ArgumentsBound ==
    /\ Walking =>
          \A i \in 1..Len(Raw) :
            (IsInvocation(i) /\ LocalCandidates(i) # {}) =>
              /\ Len(kids[i]) = 1
              /\ BoundAsDeclared(Largest(LocalCandidates(i)), Raw[i],
                                 kids[i][1].context.arguments)
    /\ Yields(Greet("t"), Leaf("t", <<>>), Leaf("Msg", <<Arg(KString("world"))>>))
    /\ Yields(Greet("t"), Leaf("t", <<Prop("name", KString("Bob"))>>),
              Leaf("Msg", <<Arg(KString("Bob"))>>))
    /\ Yields(Two("t"), Leaf("t", <<Arg(KString("Al")), Arg(KString("Bob"))>>),
              Leaf("Msg", <<Arg(KString("Al")), Arg(KString("Bob"))>>))
    /\ Yields(Two("t"), Leaf("t", <<Arg(KString("Bob"))>>),
              Leaf("Msg", <<Arg(KString("Bob")), Arg(KString("world"))>>))

\* C7 witness: `greet name="Bob"` was evaluated to Msg "Bob", the default
\* "world" overridden by the named argument
C7_Witness ==
    /\ pc = "evaluated"
    /\ document = <<Greet("t"), Root(<<Leaf("t", <<Prop("name", KString("Bob"))>>)>>)>>
    /\ evaluated = MOk(Root(<<Leaf("Msg", <<Arg(KString("Bob"))>>)>>))

(***************************************************************************)
(* Properties of the `expand` node.                                        *)
(***************************************************************************)
\* the node list the i-th child, an `expand` node, names
SpreadOf(i) ==
    LET expand_name == as_string(EntryValue(Raw[i].entries[1], parent.context))
    IN parent.context.arguments.expand[expand_name.v]

\* C8: an `expand p` child is replaced at its position by exactly the nodes
\* bound to p, in order, whatever their number, and is itself not yielded
C8_SpreadReplaced ==
    Walking =>
      \A i \in 1..Len(Raw) :
        IsSpread(i) =>
          /\ kids[i] = SpreadOf(i)
          /\ Unchanged(i) \notin {kids[i][j] : j \in 1..Len(kids[i])}

(***************************************************************************)
(* The accumulator scenario: a function holds a MultiError (`accum`),      *)
(* detects errors, runs sub-computations and folds their results in, then  *)
(* turns the accumulator into a MultiResult (`acc`) its caller goes on     *)
(* with.  An error is pinned to the moment it was detected: the at-field   *)
(* of the n-th error detected is n, and `log` lists them in that order.    *)
(***************************************************************************)
ErrorTypes == {"NoBody", "NonstringParam"}

\* the k errors detected next, `before` of them having been detected already
DetectedAfter(before, k, type) == [i \in 1..k |-> Error(type, before + i)]

Detected(k, type) == DetectedAfter(Len(log), k, type)

\* the result of a sub-computation that detects k errors
FreshResultAfter(before, tag, k, type) ==
    CASE tag = "Ok" -> MOk("t")
      [] tag = "OkErr" -> MOkErr("t", DetectedAfter(before, k, type))
      [] tag = "Err" -> MErr(DetectedAfter(before, k, type))

FreshResult(tag, k, type) == FreshResultAfter(Len(log), tag, k, type)

\* the (tag, k) pairs of sub-computation results within the error budget
Outcomes ==
    {<<"Ok", 0>>} \cup
    {<<tag, k>> : tag \in {"OkErr", "Err"}, k \in 1..Min(2, MaxErrors - Len(log))}

templateIdle == UNCHANGED <<document, required, bindings, result, parent, kids, evaluated>>

InitMulti ==
    /\ pc = "open"
    /\ document = <<>>
    /\ required = <<>>
    /\ bindings = <<>>
    /\ result = None
    /\ parent = None
    /\ kids = <<>>
    /\ evaluated = None
    /\ accum = <<>>
    /\ acc = None
    /\ log = <<>>
    /\ build = None
    /\ answer = None

\* errors.add_error(err)
AccAddError ==
    /\ pc = "open"
    /\ Len(log) < MaxErrors
    /\ \E type \in ErrorTypes :
          /\ accum' = Append(accum, Detected(1, type)[1])
          /\ log' = log \o Detected(1, type)
    /\ UNCHANGED <<pc, acc, buildVars>>
    /\ templateIdle

\* errors.extend_errors(errs)
AccExtendErrors ==
    /\ pc = "open"
    /\ \E k \in 0..Min(2, MaxErrors - Len(log)), type \in ErrorTypes :
          /\ accum' = accum \o Detected(k, type)
          /\ log' = log \o Detected(k, type)
    /\ UNCHANGED <<pc, acc, buildVars>>
    /\ templateIdle

\* errors.optionally(res) on the result of a sub-computation
AccOptionally ==
    /\ pc = "open"
    /\ \E o \in Outcomes, type \in ErrorTypes :
          LET res == FreshResult(o[1], o[2], type)
          IN /\ accum' = optionally(accum, res).errors
             /\ log' = log \o res.errs
    /\ UNCHANGED <<pc, acc, buildVars>>
    /\ templateIdle

\* multi_try!(errors, res) on the result of a sub-computation
AccMultiTry ==
    /\ pc = "open"
    /\ \E o \in Outcomes, type \in ErrorTypes :
          LET res == FreshResult(o[1], o[2], type)
              tried == multi_try(accum, res)
          IN /\ log' = log \o res.errs
             /\ IF tried.returns
                THEN pc' = "sealed" /\ acc' = tried.result /\ accum' = <<>>
                ELSE pc' = pc /\ acc' = acc /\ accum' = tried.errors
    /\ UNCHANGED buildVars
    /\ templateIdle

\* errors.optionally(iter.collect()) over the results of two sub-computations
AccCollect ==
    /\ pc = "open"
    /\ \E o1 \in Outcomes, type \in ErrorTypes :
          \E o2 \in {<<"Ok", 0>>} \cup
                    {<<tag, 1>> : tag \in IF Len(log) + o1[2] < MaxErrors
                                          THEN {"OkErr", "Err"} ELSE {}} :
            LET first == FreshResult(o1[1], o1[2], type)
                second == FreshResultAfter(Len(log) + o1[2], o2[1], o2[2], type)
                collected == from_iter(<<first, second>>)
            IN /\ accum' = optionally(accum, collected).errors
               /\ log' = log \o first.errs \o second.errs
    /\ UNCHANGED <<pc, acc, buildVars>>
    /\ templateIdle

\* errors.into_result(ok)
AccIntoResult ==
    /\ pc = "open"
    /\ acc' = into_result(accum, "t")
    /\ accum' = <<>>
    /\ pc' = "sealed"
    /\ UNCHANGED <<log, buildVars>>
    /\ templateIdle

\* errors.into_errors(err)
AccIntoErrors ==
    /\ pc = "open"
    /\ Len(log) < MaxErrors
    /\ \E type \in ErrorTypes :
          /\ acc' = into_errors(accum, Detected(1, type)[1])
          /\ log' = log \o Detected(1, type)
    /\ accum' = <<>>
    /\ pc' = "sealed"
    /\ UNCHANGED buildVars
    /\ templateIdle

\* res.combine(errors): a last sub-computation runs, and its result is
\* combined with the accumulator, as Builder::new_dynamic does
CombineLast ==
    /\ pc = "open"
    /\ \E o \in Outcomes, type \in ErrorTypes :
          LET res == FreshResult(o[1], o[2], type)
          IN /\ acc' = combine(res, accum)
             /\ log' = log \o res.errs
    /\ accum' = <<>>
    /\ pc' = "sealed"
    /\ UNCHANGED buildVars
    /\ templateIdle

\* res.add_error(err)
ResAddError ==
    /\ pc = "sealed"
    /\ Len(log) < MaxErrors
    /\ \E type \in ErrorTypes :
          /\ acc' = add_error(acc, Detected(1, type)[1])
          /\ log' = log \o Detected(1, type)
    /\ UNCHANGED <<pc, accum, buildVars>>
    /\ templateIdle

\* res.extend_errors(errs)
ResExtendErrors ==
    /\ pc = "sealed"
    /\ \E k \in 0..Min(2, MaxErrors - Len(log)), type \in ErrorTypes :
          /\ acc' = extend_errors(acc, Detected(k, type))
          /\ log' = log \o Detected(k, type)
    /\ UNCHANGED <<pc, accum, buildVars>>
    /\ templateIdle

\* res.and_then(f): the continuation f runs unless res is Err
AndThen ==
    /\ pc = "sealed"
    /\ IF acc.tag = "Err"
       THEN acc' = and_then(acc, acc) /\ log' = log
       ELSE \E o \in Outcomes, type \in ErrorTypes :
              LET result_u == FreshResult(o[1], o[2], type)
              IN /\ acc' = and_then(acc, result_u)
                 /\ log' = log \o result_u.errs
    /\ UNCHANGED <<pc, accum, buildVars>>
    /\ templateIdle

NextMulti ==
    \/ AccAddError \/ AccExtendErrors \/ AccOptionally \/ AccMultiTry \/ AccCollect
    \/ AccIntoResult \/ AccIntoErrors \/ CombineLast
    \/ ResAddError \/ ResExtendErrors \/ AndThen

SpecMulti == InitMulti /\ [][NextMulti]_vars

\* C9: whatever operations ran, the errors held are exactly the errors
\* detected, each once, in the order they were detected
C9_ErrorsInOrder ==
    /\ pc = "open" => accum = log
    /\ pc = "sealed" => acc.errs = log

\* C28: a MultiResult in the OkErr or Err variant carries at least one error
\* after any sequence of operations on values built by the constructors, and
\* so MultiResult::into_result returns Err only when an error was recorded.
C28_ErrVariantsCarryAnError ==
    pc = "sealed" =>
        /\ acc.tag \in {"OkErr", "Err"} => acc.errs # <<>>
        /\ ~IntoResult(acc).ok => log # <<>>

(***************************************************************************)
(* The collect scenario: an iterator of MultiResults (held in `accum`) is  *)
(* collected into one MultiResult (held in `acc`).                         *)
(***************************************************************************)
\* the MultiResults an iterator yields
IterItems ==
    {MOk("a"), MOk("b"),
     MOkErr("c", <<Error("E1", 1)>>), MOkErr("d", <<Error("E2", 2), Error("E3", 3)>>),
     MErr(<<Error("E4", 4)>>), MErr(<<Error("E5", 5), Error("E6", 6)>>)}

InitCollect ==
    /\ pc = "items"
    /\ document = <<>>
    /\ required = <<>>
    /\ bindings = <<>>
    /\ result = None
    /\ parent = None
    /\ kids = <<>>
    /\ evaluated = None
    /\ accum \in SeqsUpTo(IterItems, MaxItems)
    /\ acc = None
    /\ log = <<>>
    /\ build = None
    /\ answer = None

\* iter.collect::<MultiResult<Vec<_>, _>>()
Collect ==
    /\ pc = "items"
    /\ acc' = from_iter(accum)
    /\ pc' = "collected"
    /\ UNCHANGED <<accum, log, buildVars>>
    /\ templateIdle

NextCollect == Collect

SpecCollect == InitCollect /\ [][NextCollect]_vars

RECURSIVE AllErrors(_)
\* the errors of every item, in iteration order
AllErrors(items) ==
    IF items = <<>> THEN <<>> ELSE Head(items).errs \o AllErrors(Tail(items))

RECURSIVE AllValues(_)
\* the value of every item that carries one, in iteration order
AllValues(items) ==
    IF items = <<>> THEN <<>>
    ELSE (IF Head(items).tag = "Err" THEN <<>> ELSE <<Head(items).t>>) \o AllValues(Tail(items))

\* C12: collecting visits every item: the errors are those of all the items
\* in order, the collection holds the value of every Ok or OkErr item in
\* order, the result is Ok exactly when no item had an error and Err only
\* when there are errors and no item carried a value
C12_CollectVisitsAll ==
    pc = "collected" =>
      /\ acc.errs = AllErrors(accum)
      /\ acc.tag # "Err" => acc.t = AllValues(accum)
      /\ acc.tag = "Ok" <=> AllErrors(accum) = <<>>
      /\ acc.tag = "Err" => AllErrors(accum) # <<>> /\ AllValues(accum) = <<>>

\* C12 witness: an item without value came before items with a value, and
\* the values and the errors after it were still collected
C12_Witness ==
    /\ pc = "collected"
    /\ Len(accum) = 3
    /\ accum[1].tag = "Err" /\ accum[2].tag = "OkErr" /\ accum[3].tag = "Ok"
    /\ acc.tag = "OkErr"
    /\ Len(acc.t) = 2
    /\ Len(acc.errs) > Len(accum[1].errs)

(***************************************************************************)
(* bevy-reflect-deser: the builders that turn the fields of a node into a  *)
(* dynamic value.  A ConvertError is pinned to the top-level field of the  *)
(* node it was raised in (0: the node itself).  A field is a record        *)
(* [name, ty, value]; its value is a KdlValue (an entry) or a node         *)
(* [kind |-> "Node", fields |-> ..] (a child node).                        *)
(***************************************************************************)
Field(name, ty, value) == [name |-> name, ty |-> ty, value |-> value]
Node(fields) == [kind |-> "Node", fields |-> fields]

ValueInfo(name) == [kind |-> "Value", name |-> name, fields |-> <<>>]
StructInfo(name, fields) == [kind |-> "Struct", name |-> name, fields |-> fields]
TupleStructInfo(name, types) ==
    [kind |-> "TupleStruct", name |-> name,
     fields |-> [i \in 1..Len(types) |-> [name |-> "", type |-> types[i]]]]
TupleInfo(name, types) ==
    [kind |-> "Tuple", name |-> name,
     fields |-> [i \in 1..Len(types) |-> [name |-> "", type |-> types[i]]]]
ListInfo(name, item) == [kind |-> "List", name |-> name, item |-> item, fields |-> <<>>]
AnonTupleInfo == [kind |-> "AnonTuple", name |-> "Tuple", fields |-> <<>>]
MapInfo(name, key, value) ==
    [kind |-> "Map", name |-> name, key |-> key, value |-> value, fields |-> <<>>]

\* the integer types of the registry and their Option
IntTypes == {"u8", "i8"}
OptionIntTypes == {"Option<u8>", "Option<i8>"}

\* the TypeInfo of the registered types: primitives, newtypes around them,
\* and compound types
TypeInfoOf(name) ==
    CASE name = "Inner" -> TupleStructInfo(name, <<"u8">>)
      [] name = "D" -> StructInfo(name, <<[name |-> "x", type |-> "u8"]>>)
      [] name = "(u8,)" -> TupleInfo(name, <<"u8">>)
      [] name = "Wrapper" -> TupleStructInfo(name, <<"Inner">>)
      [] name = "Outer" -> StructInfo(name, <<[name |-> "d", type |-> "D"]>>)
      [] name = "(Inner,)" -> TupleInfo(name, <<"Inner">>)
      [] name = "Holder" -> StructInfo(name, <<[name |-> "i", type |-> "Inner"]>>)
      [] name = "Top" -> TupleStructInfo(name, <<"Outer">>)
      [] name = "Pair" -> TupleStructInfo(name, <<"u8", "String">>)
      [] name = "Triple" -> TupleStructInfo(name, <<"String", "u8", "u8">>)
      [] name = "(u8, String)" -> TupleInfo(name, <<"u8", "String">>)
      [] name = "S" -> StructInfo(name, <<[name |-> "a", type |-> "u8"],
                                          [name |-> "b", type |-> "String"]>>)
      [] name = "Vec<u8>" -> ListInfo(name, "u8")
      [] name = "HashMap<String, u8>" -> MapInfo(name, "String", "u8")
      [] OTHER -> ValueInfo(name)

Registry ==
    IntTypes \cup OptionIntTypes \cup
    {"String", "Inner", "D", "(u8,)", "Wrapper", "Outer", "(Inner,)", "Holder", "Top",
     "Pair", "Triple", "(u8, String)", "S", "Vec<u8>", "HashMap<String, u8>"}

\* the integer a Base10 literal of the documents stands for
IntOf(literal) ==
    CASE literal = "1" -> 1
      [] literal = "5" -> 5
      [] literal = "300" -> 300
      [] literal = "200" -> 200
      [] literal = "-1" -> 0 - 1

\* <T>::MIN and <T>::MAX of the integer type T, or of the T of Option<T>
IntMin(type) == IF type \in {"u8", "Option<u8>"} THEN 0 ELSE 0 - 128
IntMax(type) == IF type \in {"u8", "Option<u8>"} THEN 255 ELSE 127

\* <T>::try_from(i)
try_from(type, i) ==
    IF IntMin(type) <= i /\ i <= IntMax(type) THEN Ok(i) ELSE Err("TryFromIntError")

\* ConvertError::IntDomain(i, type_name::<T>())
IntDomain(i, type) == [type |-> "IntDomain", at |-> 0, int |-> i, of |-> type]

\* get_named
get_named(name) == IF name \in Registry THEN Ok(name) ELSE Err(Error("NoSuchType", 0))

\* Option::and_then(|e| errors.optionally(get_named(e, reg)))
Registered(errors, name) ==
    IF name.some THEN optionally(errors, FromResult(get_named(name.v)))
    ELSE [errors |-> errors, opt |-> None]

RECURSIVE ExpectedTypeNew(_)
\* ExpectedType::new: the type and, while it has a single field, the type of
\* that field; an ExpectedType is its `tys`, and ExpectedType::tuple() is <<>>
ExpectedTypeNew(name) ==
    LET info == TypeInfoOf(name)
    IN IF info.kind \in {"Struct", "Tuple", "TupleStruct"} /\ Len(info.fields) = 1
       THEN <<name>> \o ExpectedTypeNew(info.fields[1].type)
       ELSE <<name>>

\* type_info that keeps the expected type when the declared one differs
TypeInfoPreferExpected(declared, expected) ==
    Let(Registered(<<>>, expected), LAMBDA e :
    IF declared = Some("Tuple")
    THEN into_result(e.errors, IF e.opt.some THEN ExpectedTypeNew(e.opt.v) ELSE <<>>)
    ELSE Let(Registered(e.errors, declared), LAMBDA d :
         CASE d.opt.some /\ e.opt.some /\ d.opt.v # e.opt.v ->
                into_result(Append(d.errors, Error("TypeMismatch", 0)), ExpectedTypeNew(e.opt.v))
           [] e.opt.some -> into_result(d.errors, ExpectedTypeNew(e.opt.v))
           [] ~d.opt.some -> into_errors(d.errors, Error("UntypedTupleField", 0))
           [] OTHER -> into_result(d.errors, ExpectedTypeNew(d.opt.v))))

\* type_info
type_info(declared, expected) ==
    Let(Registered(<<>>, expected), LAMBDA e :
    IF declared = Some("Tuple")
    THEN into_result(e.errors, IF e.opt.some THEN ExpectedTypeNew(e.opt.v) ELSE <<>>)
    ELSE Let(Registered(e.errors, declared), LAMBDA d :
         CASE d.opt.some /\ e.opt.some /\ d.opt.v # e.opt.v ->
                into_result(Append(d.errors, Error("TypeMismatch", 0)), ExpectedTypeNew(d.opt.v))
           [] e.opt.some -> into_result(d.errors, ExpectedTypeNew(e.opt.v))
           [] ~d.opt.some -> into_errors(d.errors, Error("UntypedTupleField", 0))
           [] OTHER -> into_result(d.errors, ExpectedTypeNew(d.opt.v))))

\* KdlConcrete::dyn_primitive_value: the literal boxed as a value of the
\* primitive type (int2dyn!, int2dyn!(@opt ..), String)
dyn_primitive_value(value, type) ==
    CASE value.kind = "Base10" /\ type \in IntTypes ->
           IF try_from(type, IntOf(value.v)).ok
           THEN Ok([box |-> type, int |-> IntOf(value.v)])
           ELSE Err(IntDomain(IntOf(value.v), type))
      [] value.kind = "Base10" /\ type \in OptionIntTypes ->
           Ok([box |-> type,
               opt |-> IF try_from(type, IntOf(value.v)).ok THEN Some(IntOf(value.v)) ELSE None])
      [] value.kind = "String" /\ type = "String" -> Ok([box |-> type, str |-> value.v])
      [] OTHER -> Err(Error("TypeMismatch", 0))

\* NodeThunk::is_anon on the fields of the node
is_anon(fields) == fields # <<>> /\ ~fields[1].name.some

\* NodeThunk::first_argument: the only entry of the node, when it is unnamed
first_argument(fields) ==
    LET entries == SelectSeq(fields, LAMBDA f : f.value.kind # "Node")
    IN IF Len(entries) = 1 /\ ~entries[1].name.some THEN Some(entries[1].value) ELSE None

\* the builder into_dyn picks for a node
Dispatch(info, fields) ==
    CASE info.kind = "Struct" -> IF is_anon(fields) THEN "AnonStruct" ELSE "Struct"
      [] info.kind = "Map" -> IF is_anon(fields) THEN "PairMap" ELSE "Map"
      [] OTHER -> info.kind

\* StructInfo::field
InfoField(info, name) ==
    LET found == {i \in 1..Len(info.fields) : info.fields[i].name = name}
    IN IF found = {} THEN None ELSE Some(info.fields[CHOOSE i \in found : TRUE])

\* Primitive::expected
expected(kind, dyn, name, info) ==
    CASE kind = "Struct" ->
           IF InfoField(info, name).some THEN Ok(InfoField(info, name).v.type)
           ELSE Err(Error("NoSuchStructField", 0))
      [] kind = "List" -> Ok(info.item)
      [] kind = "Map" -> Ok(info.value)
      [] OTHER ->
           LET requested == Len(dyn)
           IN IF requested < Len(info.fields) THEN Ok(info.fields[requested + 1].type)
              ELSE Err(Error(IF kind = "Tuple" THEN "TooManyTupleFields"
                             ELSE "TooManyTupleStructFields", 0))

\* add_boxed that stores a field of a struct under the name of the next
\* declared field instead of its own
AddBoxedByPosition(kind, dyn, name, boxed, info) ==
    IF Len(dyn) < Len(info.fields) /\ kind \in {"Struct", "AnonStruct"}
    THEN [dyn |-> Append(dyn, [name |-> info.fields[Len(dyn) + 1].name, value |-> boxed]),
          r |-> Ok("unit")]
    ELSE [dyn |-> Append(dyn, [name |-> name, value |-> boxed]), r |-> Ok("unit")]

\* Primitive::add_boxed: the dynamic afterwards and the ConvResult;
\* AnonDynamicStruct unwraps the declared field at the next index and panics
\* when there is none
add_boxed(kind, dyn, name, boxed, info) ==
    CASE kind \in {"Struct", "Map"} ->
           IF \E i \in 1..Len(dyn) : dyn[i].name = name
           THEN [dyn |-> dyn, r |-> Err(Error("MultipleSameField", 0))]
           ELSE [dyn |-> Append(dyn, [name |-> name, value |-> boxed]), r |-> Ok("unit")]
      [] kind = "AnonStruct" ->
           IF Len(dyn) < Len(info.fields)
           THEN [dyn |-> Append(dyn, [name |-> info.fields[Len(dyn) + 1].name, value |-> boxed]),
                 r |-> Ok("unit")]
           ELSE [dyn |-> dyn, r |-> Err(Error("panic", 0))]
      [] OTHER -> [dyn |-> Append(dyn, [name |-> "", value |-> boxed]), r |-> Ok("unit")]

\* Primitive::validate
validate(kind, dyn, info) ==
    CASE kind \in {"List", "Map"} -> Ok("unit")
      [] kind = "Struct" /\ Len(dyn) # Len(info.fields) ->
           Err([type |-> "NotEnoughStructFields", at |-> 0,
                missing |-> {i \in 1..Len(info.fields) :
                               \A j \in 1..Len(dyn) : dyn[j].name # info.fields[i].name}])
      [] kind # "Struct" /\ Len(dyn) # Len(info.fields) -> Err(Error("NotEnoughTupleFields", 0))
      [] OTHER -> Ok("unit")

\* Primitive::reflect: the dynamic of the builder, named after its type
reflect(kind, dyn, info) ==
    [box |-> info.name,
     kind |-> CASE kind = "AnonStruct" -> "Struct" [] kind = "PairMap" -> "Map" [] OTHER -> kind,
     fields |-> dyn]

\* the dynamic ExpectedType::into_dyn wraps around the value of the single
\* field of a newtype
Newtype(type, inner) ==
    LET info == TypeInfoOf(type)
    IN [box |-> type, kind |-> info.kind,
        fields |-> <<[name |-> info.fields[1].name, value |-> inner]>>]

RECURSIVE NewtypeLoopNoRetry(_, _, _, _)
\* the loop that keeps the failure of the innermost type instead of trying
\* the next type
NewtypeLoopNoRetry(tys, inner, field, span) ==
    IF tys = <<>> THEN inner
    ELSE NewtypeLoopNoRetry(Tail(tys),
                            IF inner.tag = "Ok" THEN MOk(Newtype(Head(tys), inner.t)) ELSE inner,
                            field, span)

RECURSIVE into_dyn(_, _, _)
RECURSIVE NewtypeLoop(_, _, _, _)
\* the loop of ExpectedType::into_dyn over the types around the innermost
\* one: wrap what was built, or try to build the field as the next type
NewtypeLoop(tys, inner, field, span) ==
    IF tys = <<>> THEN inner
    ELSE NewtypeLoop(Tail(tys),
                     IF inner.tag = "Ok"
                          /\ TypeInfoOf(Head(tys)).kind \in {"Struct", "Tuple", "TupleStruct"}
                     THEN MOk(Newtype(Head(tys), inner.t))
                     ELSE into_dyn(field.value, Some(Head(tys)), span),
                     field, span)

\* ExpectedType::into_dyn
ExpectedIntoDyn(tys, field, span) ==
    IF tys = <<>> THEN into_dyn(field.value, None, span)
    ELSE NewtypeLoop(Tail(Reverse(tys)),
                     into_dyn(field.value, Some(tys[Len(tys)]), span), field, span)

\* the tail shared by both add_field: convert the value and insert it
AddValue(kind, dyn, info, field, name, errors, try_ty, span) ==
    Let(multi_try(errors, try_ty), LAMBDA ty :
    IF ty.returns THEN [dyn |-> dyn, r |-> ty.result]
    ELSE Let(multi_try(ty.errors, ExpectedIntoDyn(ty.t, field, span)), LAMBDA value :
         IF value.returns THEN [dyn |-> dyn, r |-> value.result]
         ELSE Let(add_boxed(kind, dyn, name, value.t, info), LAMBDA added :
              [dyn |-> added.dyn,
               r |-> into_result(IF added.r.ok THEN value.errors
                                 ELSE Append(value.errors, [added.r.e EXCEPT !.at = span]),
                                 "unit")])))

\* Wrapper<(), T::Info, T>::add_field
AddFieldUnit(kind, dyn, info, field, span) ==
    LET opt_ty == IF field.ty.some THEN field.ty ELSE field.name
    IN Let(optionally(<<>>, map_err_span(FromResult(expected(kind, dyn, "", info)), span)),
           LAMBDA first :
           AddValue(kind, dyn, info, field, "", first.errors,
                    map_err_span(type_info(opt_ty, first.opt), span), span))

\* Wrapper<String, T::Info, T>::add_field
AddFieldString(kind, dyn, info, field, span) ==
    IF field.name.some
    THEN Let(optionally(<<>>,
                 map_err_span(FromResult(expected(kind, dyn, field.name.v, info)), span)),
             LAMBDA first :
             AddValue(kind, dyn, info, field, field.name.v, first.errors,
                      map_err_span(type_info(field.ty, first.opt), span), span))
    ELSE [dyn |-> dyn, r |-> into_result(<<Error("UnnamedMapField", span)>>, "unit")]

\* AnonTupleBuilder::add_field: the errors of the conversions that gave a
\* value are dropped by the final MultiResult::Ok(())
AddFieldAnonTuple(dyn, field, span) ==
    LET opt_ty == IF field.ty.some THEN field.ty ELSE field.name
    IN IF ~opt_ty.some THEN [dyn |-> dyn, r |-> MErr(<<Error("UntypedTupleField", span)>>)]
       ELSE Let(multi_try(<<>>, map_err_span(FromResult(get_named(opt_ty.v)), span)),
                LAMBDA declared :
            IF declared.returns THEN [dyn |-> dyn, r |-> declared.result]
            ELSE Let(multi_try(declared.errors,
                               map_err_span(type_info(None, Some(declared.t)), span)),
                     LAMBDA ty :
                 IF ty.returns THEN [dyn |-> dyn, r |-> ty.result]
                 ELSE Let(multi_try(ty.errors, ExpectedIntoDyn(ty.t, field, span)),
                          LAMBDA value :
                      IF value.returns THEN [dyn |-> dyn, r |-> value.result]
                      ELSE [dyn |-> Append(dyn, [name |-> "", value |-> value.t]),
                            r |-> MOk("unit")])))

\* FieldThunk::pair: the first two fields of a node
pair(field) ==
    IF field.value.kind = "Node" /\ Len(field.value.fields) >= 2
    THEN Some(<<field.value.fields[1], field.value.fields[2]>>)
    ELSE None

\* DynamicMap::insert_boxed: the value of a key already held is replaced
insert_boxed(dyn, key, value) ==
    IF \E i \in 1..Len(dyn) : dyn[i].key = key
    THEN [i \in 1..Len(dyn) |-> IF dyn[i].key = key THEN [key |-> key, value |-> value]
                                ELSE dyn[i]]
    ELSE Append(dyn, [key |-> key, value |-> value])

\* PairMapBuilder::add_field
AddFieldPairMap(dyn, info, field, span) ==
    IF pair(field).some
    THEN Let(multi_try(<<>>, map_err_span(type_info(None, Some(info.key)), span)),
             LAMBDA key_expected :
         IF key_expected.returns THEN [dyn |-> dyn, r |-> key_expected.result]
         ELSE Let(multi_try(key_expected.errors,
                            map_err_span(type_info(None, Some(info.value)), span)),
                  LAMBDA value_expected :
              IF value_expected.returns THEN [dyn |-> dyn, r |-> value_expected.result]
              ELSE Let(multi_try(value_expected.errors,
                                 ExpectedIntoDyn(key_expected.t, pair(field).v[1], span)),
                       LAMBDA key :
                   IF key.returns THEN [dyn |-> dyn, r |-> key.result]
                   ELSE Let(multi_try(key.errors,
                                      ExpectedIntoDyn(value_expected.t, pair(field).v[2], span)),
                            LAMBDA value :
                        IF value.returns THEN [dyn |-> dyn, r |-> value.result]
                        ELSE [dyn |-> insert_boxed(dyn, key.t, value.t),
                              r |-> into_result(value.errors, "unit")]))))
    ELSE [dyn |-> dyn, r |-> into_errors(<<>>, Error("TupleMapDeclarationMixup", span))]

\* Builder::add_field
add_field(kind, dyn, info, field, span) ==
    CASE kind \in {"Struct", "Map"} -> AddFieldString(kind, dyn, info, field, span)
      [] kind = "AnonTuple" -> AddFieldAnonTuple(dyn, field, span)
      [] kind = "PairMap" -> AddFieldPairMap(dyn, info, field, span)
      [] OTHER -> AddFieldUnit(kind, dyn, info, field, span)

\* Builder::complete
complete(kind, dyn, info) ==
    IF kind \in {"AnonTuple", "PairMap"}
    THEN MOk(reflect(IF kind = "PairMap" THEN "Map" ELSE "Tuple", dyn, info))
    ELSE into_result(optionally(<<>>, FromResult(validate(kind, dyn, info))).errors,
                     reflect(kind, dyn, info))

RECURSIVE AddFields(_, _, _, _, _, _)
\* the loop of Builder::new_dynamic over the fields of a node:
\* errors.optionally(builder.add_field(field, reg))
AddFields(kind, dyn, info, fields, span, errors) ==
    IF fields = <<>> THEN [dyn |-> dyn, errors |-> errors]
    ELSE Let(add_field(kind, dyn, info, Head(fields), span), LAMBDA added :
             AddFields(kind, added.dyn, info, Tail(fields), span,
                       optionally(errors, added.r).errors))

\* Builder::new_dynamic on a child node; ValueBuilder::new_dynamic for a
\* primitive type
new_dynamic(kind, info, fields, span) ==
    IF kind = "Value"
    THEN IF first_argument(fields).some
         THEN map_err_span(FromResult(dyn_primitive_value(first_argument(fields).v, info.name)),
                           span)
         ELSE MErr(<<Error("NoValuesInNode", span)>>)
    ELSE Let(AddFields(kind, <<>>, info, fields, span, <<>>), LAMBDA built :
             combine(map_err_span(complete(kind, built.dyn, info), span), built.errors))

\* into_dyn: a value or a node built as the expected type
into_dyn(value, expect, span) ==
    CASE value.kind = "Node" /\ ~expect.some ->
           new_dynamic("AnonTuple", AnonTupleInfo, value.fields, span)
      [] value.kind = "Node" /\ expect.some ->
           new_dynamic(Dispatch(TypeInfoOf(expect.v), value.fields), TypeInfoOf(expect.v),
                       value.fields, span)
      [] value.kind # "Node" /\ expect.some ->
           map_err_span(FromResult(dyn_primitive_value(value, expect.v)), span)
      [] OTHER -> MErr(<<Error("GenericUnsupported", span)>>)

(***************************************************************************)
(* The builder scenario: Builder::new_dynamic on a node, one field at a    *)
(* time and then the completion.                                           *)
(***************************************************************************)
Infos == {TypeInfoOf(n) : n \in {"Pair", "Triple", "(u8, String)", "S", "Vec<u8>"}}

FieldNames == {None, Some("a"), Some("b"), Some("z")}
FieldValues == {KBase10("5"), KBase10("300"), KString("x")}
\* fields with a type annotation: `(String)z="x"`, `(String)a="x"`, `(u8)5`
TypedFields ==
    {Field(Some("z"), Some("String"), KString("x")),
     Field(Some("a"), Some("String"), KString("x")),
     Field(None, Some("u8"), KBase10("5"))}
NodeFields == {Field(n, None, v) : n \in FieldNames, v \in FieldValues} \cup TypedFields

\* an unwrap of the builder panicked while the result was made
Panicked(res) == res.tag # "Ok" /\ \E i \in 1..Len(res.errs) : res.errs[i].type = "panic"

InitBuild ==
    /\ pc = "fields"
    /\ document = <<>>
    /\ required = <<>>
    /\ bindings = <<>>
    /\ result = None
    /\ parent = None
    /\ kids = <<>>
    /\ evaluated = None
    /\ accum = <<>>
    /\ acc = None
    /\ log = <<>>
    /\ answer = None
    /\ \E info \in Infos, fields \in SeqsUpTo(NodeFields, MaxFields) :
          build = [kind |-> Dispatch(info, fields), info |-> info, fields |-> fields,
                   next |-> 1, dyn |-> <<>>, errors |-> <<>>, result |-> None]

\* one turn of the loop of new_dynamic: errors.optionally(builder.add_field(..))
BuilderAddField ==
    /\ pc = "fields"
    /\ build.next <= Len(build.fields)
    /\ \E added \in {add_field(build.kind, build.dyn, build.info,
                               build.fields[build.next], build.next)} :
          /\ build' = [build EXCEPT !.dyn = added.dyn,
                                    !.errors = optionally(@, added.r).errors,
                                    !.next = @ + 1]
          /\ pc' = IF Panicked(added.r) THEN "panic" ELSE pc
    /\ UNCHANGED <<answer, multiVars>>
    /\ templateIdle

\* the end of new_dynamic: builder.complete().map_err_span(..).combine(errors)
BuilderComplete ==
    /\ pc = "fields"
    /\ build.next > Len(build.fields)
    /\ build' = [build EXCEPT !.result =
                   combine(map_err_span(complete(build.kind, build.dyn, build.info), 0),
                           build.errors)]
    /\ pc' = "built"
    /\ UNCHANGED <<answer, multiVars>>
    /\ templateIdle

NextBuild == BuilderAddField \/ BuilderComplete

SpecBuild == InitBuild /\ [][NextBuild]_vars

(***************************************************************************)
(* The field scenario: one field of a node is made into a dynamic value:   *)
(* its type is resolved from the declared and the expected type, then the  *)
(* value is converted.                                                     *)
(***************************************************************************)
\* the newtypes of the registry: chains of single-field wrappers around u8
ChainTypes == {"Inner", "D", "(u8,)", "Wrapper", "Outer", "(Inner,)", "Holder", "Top"}

\* the literals of the fields
Literals == {KBase10("5"), KBase10("300"), KBase10("200"), KBase10("-1"), KString("x")}

\* `name literal`: a node that carries only the bare literal
Bare(literal, name) == Field(name, None, Node(<<Field(None, None, literal)>>))

RECURSIVE Explicit(_, _, _)
\* the explicitly nested declaration of a newtype: every wrapper is a node
\* that declares its single field, by name in a struct (`D x=5`,
\* `Outer { d x=5; }`) and by type otherwise (`Wrapper { Inner 5; }`)
Explicit(type, literal, name) ==
    LET info == TypeInfoOf(type)
        inner == info.fields[1]
    IN Field(name, None,
             Node(IF TypeInfoOf(inner.type).kind = "Value"
                  THEN <<Field(IF info.kind = "Struct" THEN Some(inner.name) ELSE None,
                               None, literal)>>
                  ELSE <<Explicit(inner.type, literal,
                                  Some(IF info.kind = "Struct" THEN inner.name
                                       ELSE inner.type))>>))

\* the names a field is declared with: none, a registered type, an
\* unregistered one, and the anonymous tuple
DeclaredNames == {None, Some("u8"), Some("String"), Some("zz"), Some("Tuple")}

FieldInputs ==
    {Field(n, None, v) : n \in DeclaredNames, v \in Literals}
    \cup {Field(Some("zz"), Some("i8"), v) : v \in Literals}
    \cup {Bare(v, n) : v \in Literals, n \in {None, Some("Tuple")}}
    \cup {Bare(v, Some(t)) : v \in Literals, t \in ChainTypes}
    \cup UNION {{Explicit(t, v, n) : v \in Literals, n \in {None, Some(t), Some("Tuple")}} :
                   t \in ChainTypes}

ExpectedInputs ==
    {None, Some("zz"), Some("String")}
    \cup {Some(t) : t \in IntTypes \cup OptionIntTypes \cup ChainTypes}

InitField ==
    /\ pc = "field"
    /\ document = <<>>
    /\ required = <<>>
    /\ bindings = <<>>
    /\ result = None
    /\ parent = None
    /\ kids = <<>>
    /\ evaluated = None
    /\ accum = <<>>
    /\ acc = None
    /\ log = <<>>
    /\ answer = None
    /\ \E field \in FieldInputs, expect \in ExpectedInputs :
          build = [field |-> field, expected |-> expect,
                   declared |-> IF field.ty.some THEN field.ty ELSE field.name,
                   ty |-> None, result |-> None]

\* make_named_dyn up to ExpectedType::new: the type is resolved
FieldType ==
    /\ pc = "field"
    /\ build' = [build EXCEPT !.ty = map_err_span(type_info(build.declared, build.expected), 1)]
    /\ pc' = "typed"
    /\ UNCHANGED <<answer, multiVars>>
    /\ templateIdle

\* the rest of make_declared_dyn: multi_try!(errs, expected), then
\* expected.make_dyn(field).combine(errs)
FieldMake ==
    /\ pc = "typed"
    /\ \E ty \in {multi_try(<<>>, build.ty)} :
       \E made \in {IF ty.returns THEN ty.result
                    ELSE combine(ExpectedIntoDyn(ty.t, build.field, 1), ty.errors)} :
          /\ build' = [build EXCEPT !.result = made]
          /\ pc' = IF Panicked(made) THEN "panic" ELSE "converted"
    /\ UNCHANGED <<answer, multiVars>>
    /\ templateIdle

NextField == FieldType \/ FieldMake

SpecField == InitField /\ [][NextField]_vars

(***************************************************************************)
(* The By-field scenario: a struct is built from a node whose fields all   *)
(* carry a name, in every order.                                           *)
(***************************************************************************)
NamedFields ==
    {Field(Some(n), None, v) : n \in {"a", "b", "z"}, v \in FieldValues}
    \cup {f \in TypedFields : f.name.some}

InitOrder ==
    /\ pc = "fields"
    /\ document = <<>>
    /\ required = <<>>
    /\ bindings = <<>>
    /\ result = None
    /\ parent = None
    /\ kids = <<>>
    /\ evaluated = None
    /\ accum = <<>>
    /\ acc = None
    /\ log = <<>>
    /\ answer = None
    /\ \E fields \in SeqsUpTo(NamedFields, MaxNamed) :
          build = [kind |-> Dispatch(TypeInfoOf("S"), fields), info |-> TypeInfoOf("S"),
                   fields |-> fields, next |-> 1, dyn |-> <<>>, errors |-> <<>>,
                   result |-> None]

SpecOrder == InitOrder /\ [][NextBuild]_vars

(***************************************************************************)
(* Properties of the builder.                                              *)
(***************************************************************************)
\* the value cannot be built as the type
Misfit(value, type) ==
    ~ \/ type = "String" /\ value.kind = "String"
      \/ type = "u8" /\ value.kind = "Base10" /\ IntOf(value.v) \in 0..255

\* the declared type the j-th field of the node is checked against when
\* every field before it occupies its slot
SlotType(j) ==
    IF build.kind = "Struct" THEN InfoField(build.info, build.fields[j].name.v).v.type
    ELSE build.info.fields[j].type

\* the j-th field names a field an earlier one named
Duplicate(j) ==
    /\ build.kind = "Struct"
    /\ \E i \in 1..(j - 1) : build.fields[i].name = build.fields[j].name

\* every field of the node addresses a declared field of a struct, a tuple
\* or a tuple struct: by position and not beyond the last one, or by a
\* declared name; no field carries a type annotation
WellAddressed ==
    /\ build.info.kind # "List"
    /\ \A j \in 1..Len(build.fields) : ~build.fields[j].ty.some
    /\ IF build.kind = "Struct"
       THEN \A j \in 1..Len(build.fields) :
               /\ build.fields[j].name.some
               /\ InfoField(build.info, build.fields[j].name.v).some
               /\ ~(Duplicate(j) /\ Misfit(build.fields[j].value, SlotType(j)))
       ELSE /\ Len(build.fields) <= Len(build.info.fields)
            /\ \A j \in 1..Len(build.fields) : ~build.fields[j].name.some

\* a declared field is addressed by no field of the node
SomeMissing ==
    IF build.kind = "Struct"
    THEN \E i \in 1..Len(build.info.fields) :
            \A j \in 1..Len(build.fields) : build.fields[j].name.v # build.info.fields[i].name
    ELSE Len(build.fields) < Len(build.info.fields)

\* the independent shape errors of the node: the values that do not fit
\* their slot, the repeated fields, and the missing fields (reported once)
ShapeErrors ==
    Cardinality({j \in 1..Len(build.fields) :
                    Duplicate(j) \/ Misfit(build.fields[j].value, SlotType(j))})
    + (IF SomeMissing THEN 1 ELSE 0)

\* C10: a node with N independent shape errors is built with exactly N
\* errors reported
C10_ExactlyTheShapeErrors ==
    (pc = "built" /\ WellAddressed) => Len(build.result.errs) = ShapeErrors

\* the errors of the built node that are pinned to its k-th field
ErrorsAt(k) == {i \in 1..Len(build.result.errs) : build.result.errs[i].at = k}

\* the errors of the built node of one of the given types
ErrorsOf(types) == {i \in 1..Len(build.result.errs) : build.result.errs[i].type \in types}

\* the node is declared anonymously: as a tuple, a tuple struct or a struct
\* whose fields carry neither a name nor a type annotation
Anonymous ==
    /\ build.kind \in {"Tuple", "TupleStruct", "AnonStruct"}
    /\ \A j \in 1..Len(build.fields) : ~build.fields[j].name.some /\ ~build.fields[j].ty.some

\* C16: in Anonymous mode the k-th field of the node is built against the
\* type of the k-th declared field (it is in error exactly when its value
\* does not fit that type) and stored as the k-th field; more fields than
\* declared report a too-many-fields error, fewer a not-enough-fields error
C16_AnonymousByPosition ==
    (pc = "built" /\ Anonymous) =>
      LET given == Len(build.fields)
          declared == Len(build.info.fields)
      IN /\ \A k \in 1..Min(given, declared) :
               ErrorsAt(k) # {} <=> Misfit(build.fields[k].value, build.info.fields[k].type)
         /\ (given = declared /\ build.result.errs = <<>>) =>
               build.result.t.fields =
                 [k \in 1..given |->
                    [name |-> build.info.fields[k].name,
                     value |-> dyn_primitive_value(build.fields[k].value,
                                                   build.info.fields[k].type).v]]
         /\ given > declared =>
               ErrorsOf({"TooManyTupleFields", "TooManyTupleStructFields"}) # {}
         /\ given < declared => ErrorsOf({"NotEnoughTupleFields"}) # {}

\* the node is declared by field: a struct whose fields all carry a name
ByField ==
    /\ build.kind = "Struct"
    /\ \A j \in 1..Len(build.fields) : build.fields[j].name.some

\* the declared fields of the struct that the built value does not hold
NotFilled ==
    {i \in 1..Len(build.info.fields) :
        \A j \in 1..Len(build.result.t.fields) :
            build.result.t.fields[j].name # build.info.fields[i].name}

\* C17: once the fields of a By-field struct node are consumed, the declared
\* fields that were not filled are reported together in exactly one
\* NotEnoughStructFields error naming each of them, and that error is
\* absent exactly when every declared field was filled
C17_MissingFieldsReportedOnce ==
    (pc = "built" /\ ByField) =>
      IF NotFilled = {} THEN ErrorsOf({"NotEnoughStructFields"}) = {}
      ELSE /\ Cardinality(ErrorsOf({"NotEnoughStructFields"})) = 1
           /\ \A i \in ErrorsOf({"NotEnoughStructFields"}) :
                 build.result.errs[i].missing = NotFilled

\* the first field of the node that carries the name
FirstNamed(name) ==
    CHOOSE j \in 1..Len(build.fields) :
        /\ build.fields[j].name = Some(name)
        /\ \A i \in 1..(j - 1) : build.fields[i].name # Some(name)

\* C19: a By-field struct node that repeats a field name records exactly
\* one MultipleSameField error per repeated occurrence, keeps the value of
\* the first occurrence, and still processes the other fields
C19_FirstOccurrenceKept ==
    (pc = "built" /\ ByField
       /\ \A j \in 1..Len(build.fields) :
             /\ ~build.fields[j].ty.some
             /\ InfoField(build.info, build.fields[j].name.v).some) =>
      /\ Cardinality(ErrorsOf({"MultipleSameField"}))
           = Cardinality({j \in 1..Len(build.fields) : Duplicate(j)})
      /\ \A k \in 1..Len(build.result.t.fields) :
            LET kept == build.result.t.fields[k]
                first == build.fields[FirstNamed(kept.name)]
                type == InfoField(build.info, kept.name).v.type
            IN dyn_primitive_value(first.value, type) = Ok(kept.value)
      /\ \A j \in 1..Len(build.fields) :
            (~Duplicate(j) /\ ~Misfit(build.fields[j].value, SlotType(j))) =>
               \E k \in 1..Len(build.result.t.fields) :
                  build.result.t.fields[k].name = build.fields[j].name.v

\* C20: a List accepts only the anonymous declaration: unnamed items that
\* fit are built into the list in document order, and a node with a named
\* field reports NamedListDeclaration
C20_ListAnonymousOnly ==
    (pc = "built" /\ build.info.kind = "List") =>
      /\ (\A j \in 1..Len(build.fields) :
             /\ ~build.fields[j].name.some /\ ~build.fields[j].ty.some
             /\ ~Misfit(build.fields[j].value, build.info.item)) =>
            build.result =
              MOk([box |-> build.info.name, kind |-> "List",
                   fields |-> [j \in 1..Len(build.fields) |->
                      [name |-> "",
                       value |-> dyn_primitive_value(build.fields[j].value,
                                                     build.info.item).v]]])
      /\ (\E j \in 1..Len(build.fields) : build.fields[j].name.some) =>
            ErrorsOf({"NamedListDeclaration"}) # {}

(***************************************************************************)
(* Properties of the conversion of one field.                              *)
(***************************************************************************)
\* the type name is given and registered
IsRegistered(name) == name.some /\ name.v \in Registry

\* C13: when the declared and the expected type are both registered and
\* differ, exactly one TypeMismatch error is recorded and the declared type
\* is used; when only one of them is registered, that one is used; the
\* resolution is fatal only when neither of them is registered
C13_TypeResolution ==
    pc \in {"typed", "converted"} =>
      /\ (IsRegistered(build.declared) /\ IsRegistered(build.expected)
            /\ build.declared # build.expected) =>
             build.ty = MOkErr(ExpectedTypeNew(build.declared.v), <<Error("TypeMismatch", 1)>>)
      /\ (IsRegistered(build.declared) /\ ~IsRegistered(build.expected)) =>
             build.ty.tag # "Err" /\ build.ty.t = ExpectedTypeNew(build.declared.v)
      /\ (~IsRegistered(build.declared) /\ IsRegistered(build.expected)) =>
             build.ty.tag # "Err" /\ build.ty.t = ExpectedTypeNew(build.expected.v)
      /\ build.ty.tag = "Err" =>
             ~IsRegistered(build.declared) /\ ~IsRegistered(build.expected)

\* C13 witness: a field declared as String where u8 is expected was typed
\* as String with one TypeMismatch, and its value was built as a String
C13_Witness ==
    /\ pc = "converted"
    /\ build.declared = Some("String") /\ build.expected = Some("u8")
    /\ build.ty.t = <<"String">>
    /\ build.result = MOkErr([box |-> "String", str |-> "x"], <<Error("TypeMismatch", 1)>>)

\* the field is an entry without a declared type whose value is an integer
\* literal, converted to an integer type or to the Option of one
IntegerConversion ==
    /\ build.field.value.kind = "Base10"
    /\ ~build.declared.some
    /\ build.expected.some
    /\ build.expected.v \in IntTypes \cup OptionIntTypes

\* C14: an integer literal v converted to an integer type T, or to
\* Option<T>, yields exactly v when T::MIN <= v <= T::MAX, and otherwise no
\* value and an IntDomain error carrying v and the name of the type
C14_IntegerInDomain ==
    (pc = "converted" /\ IntegerConversion) =>
      LET v == IntOf(build.field.value.v)
          T == build.expected.v
      IN IF IntMin(T) <= v /\ v <= IntMax(T)
         THEN build.result = MOk(IF T \in IntTypes THEN [box |-> T, int |-> v]
                                 ELSE [box |-> T, opt |-> Some(v)])
         ELSE build.result = MErr(<<[IntDomain(v, T) EXCEPT !.at = 1]>>)

RECURSIVE ChainValue(_, _)
\* the value of a newtype chain around the literal: Wrapper(Inner(v))
ChainValue(type, literal) ==
    IF TypeInfoOf(type).kind = "Value" THEN dyn_primitive_value(literal, type).v
    ELSE Newtype(type, ChainValue(TypeInfoOf(type).fields[1].type, literal))

\* C15: for a chain of single-field wrappers around a primitive, the node
\* that carries only the bare literal and the explicitly nested declaration
\* build the same value, the chain around the literal
C15_BareAsNested ==
    pc = "converted" =>
      \A t \in ChainTypes, v \in {KBase10("5"), KBase10("200")} :
         \A n \in {None, Some(t)} :
            (build.expected = Some(t) /\ build.field \in {Bare(v, n), Explicit(t, v, n)}) =>
               build.result = MOk(ChainValue(t, v))

\* C15 witness: `Top { Outer { d x=5; }; }` was built as Top(Outer{d: D{x: 5}})
C15_Witness ==
    /\ pc = "converted"
    /\ build.expected = Some("Top")
    /\ build.field = Explicit("Top", KBase10("5"), Some("Top"))
    /\ build.field # Bare(KBase10("5"), Some("Top"))
    /\ build.result.tag = "Ok"
    /\ build.result.t.fields[1].value.fields[1].value.fields[1].value = [box |-> "u8", int |-> 5]

(***************************************************************************)
(* Properties of the By-field declaration.                                 *)
(***************************************************************************)
\* the orders the n fields of a node can be written in
Orders(n) == {p \in [1..n -> 1..n] : \A i, j \in 1..n : p[i] = p[j] => i = j}

\* the value built from the fields of the node written in the order p
BuiltInOrder(p) ==
    new_dynamic("Struct", build.info, [i \in 1..Len(build.fields) |-> build.fields[p[i]]], 0).t

\* what a dynamic struct holds: the value of each of its fields, by name
Held(value) == {value.fields[k] : k \in 1..Len(value.fields)}

\* no two fields of the node carry the same name
DistinctNames ==
    \A i, j \in 1..Len(build.fields) : build.fields[i].name = build.fields[j].name => i = j

DocDecls == {Plain("t"), NoBody("t"), NonStr("t")}

\* the entries of the root node: `5`, `"x"`, `a=5`, `a=300`, `b="x"`
DocEntries ==
    {Arg(KBase10("5")), Arg(KString("x")), Prop("a", KBase10("5")),
     Prop("a", KBase10("300")), Prop("b", KString("x"))}

\* the last node of the documents: a declaration of S or of Pair, or an
\* export node
DocRoots ==
    {Leaf(type, entries) : type \in {"S", "Pair"}, entries \in SeqsUpTo(DocEntries, MaxEntries)}
    \cup {Leaf("export", <<Prop("t", KString("pub"))>>)}

\* the fields Imports::from_node reads: the named entries of the node whose
\* value is a string
ImportEntries(node) ==
    {i \in 1..Len(node.entries) :
       node.entries[i].name.some /\ as_string(node.entries[i].value).some}

\* Imports::from_node: the mapping from the `file/template` path to the name
\* the template has in this file; a path given twice keeps its last name
from_node(node) ==
    IF node.name = "import" THEN [mapping |-> None]
    ELSE [mapping |->
            Some([to \in {node.entries[i].value.v : i \in ImportEntries(node)} |->
                    LET last == CHOOSE i \in ImportEntries(node) :
                                  /\ node.entries[i].value.v = to
                                  /\ \A j \in ImportEntries(node) :
                                        node.entries[j].value.v = to => j <= i
                    IN node.entries[last].name.v])]

\* a get_imports that takes a document without nodes for one without imports
GetImportsLenient(doc) ==
    IF doc = <<>> THEN Ok([mapping |-> None]) ELSE Ok(from_node(doc[1]))

\* get_imports
get_imports(doc) ==
    IF doc = <<>> THEN Err(Error("NoBody", "document")) ELSE Ok(from_node(doc[1]))

\* Imports::required_bindings
required_bindings(imports) == IF imports.mapping.some THEN DOMAIN imports.mapping.v ELSE {}

\* str::rsplit_once('/') on the paths of the documents
rsplit_once(path) ==
    CASE path = "file/pub" -> Some(<<"file", "pub">>)
      [] path = "file/nope" -> Some(<<"file", "nope">>)
      [] path = "gone/pub" -> Some(<<"gone", "pub">>)
      [] OTHER -> None

\* bindings.list.get(file).and_then(|l| l.0.get(template_name))
Resolve(path, exported) ==
    IF ~rsplit_once(path).some \/ rsplit_once(path).v[1] \notin DOMAIN exported THEN None
    ELSE LET export == exported[rsplit_once(path).v[1]]
             found == {i \in 1..Len(export) : export[i].name = rsplit_once(path).v[2]}
         IN IF found = {} THEN None
            ELSE Some(export[CHOOSE i \in found : \A j \in found : i <= j])

\* Imports::bindings: the results it can give, one per order in which the
\* HashMap yields the mapping
ImportsBindings(imports, exported) ==
    IF ~imports.mapping.some THEN {Ok(<<>>)}
    ELSE LET mapping == imports.mapping.v
             missing == {path \in DOMAIN mapping : ~Resolve(path, exported).some}
         IN IF missing # {}
            THEN {Err([type |-> "MissingTemplates", at |-> "import", missing |-> missing])}
            ELSE {Ok([i \in 1..Len(q) |->
                        [local |-> mapping[q[i]], binding |-> Resolve(q[i], exported).v]]) :
                    q \in {r \in [1..Cardinality(DOMAIN mapping) -> DOMAIN mapping] :
                             \A i, j \in DOMAIN r : r[i] = r[j] => i = j}}

\* the ExportedBindingsList handed to read_doc: nothing, or the file `file`
\* that exports the binding `pub`
ExportedLists == {EmptyMap, "file" :> <<Imported.binding>>}

\* the documents of read_doc: declarations and a root node, the empty
\* document, and a document that starts with an import node
DocDocuments ==
    {Append(decls, root) : decls \in SeqsUpTo(DocDecls, MaxBindings), root \in DocRoots}
    \cup {<<>>, <<ImportNode, Leaf("S", <<Prop("a", KBase10("5"))>>)>>}

InitDoc ==
    /\ pc = "doc"
    /\ document \in DocDocuments
    /\ required = <<>>
    /\ bindings = <<>>
    /\ result = None
    /\ parent = None
    /\ kids = <<>>
    /\ evaluated = None
    /\ accum = <<>>
    /\ acc = None
    /\ log = <<>>
    /\ \E expect \in {None, Some("S"), Some("Pair")}, exported \in ExportedLists :
          build = [expected |-> expect, exported |-> exported, imports |-> None]
    /\ answer = None

\* From<template_kdl::err::Error> for Error: the template error, with its
\* span, becomes the source of a Template error
ErrorFrom(terr) == [type |-> "Template", source |-> terr]

\* MultiResult::map_err(Error::from)
MapErrFrom(res) == [res EXCEPT !.errs = [i \in 1..Len(@) |-> ErrorFrom(@[i])]]

\* ThunkField::node on a node without children: the field of the node
\* (From<NodeThunk> for FieldThunk) holds one field per entry of the node
\* (From<EntryThunk> for FieldThunk); the nodes of the documents carry no
\* type annotation
ThunkField(thunk) ==
    Field(FieldFromNode(thunk).name, None,
          Node([i \in 1..Len(thunk.body.entries) |->
                  Field(EntryFields(thunk)[i].name, None, EntryFields(thunk)[i].value)]))

\* read_navigable: make_named_dyn, the declared type being the type
\* annotation of the field or else its name
read_navigable(field, expect) ==
    Let(multi_try(<<>>, map_err_span(type_info(IF field.ty.some THEN field.ty ELSE field.name,
                                               expect), 1)), LAMBDA ty :
        IF ty.returns THEN ty.result
        ELSE combine(ExpectedIntoDyn(ty.t, field, 1), ty.errors))

ConvertDeserialized(value) == [kind |-> "Deserialized", value |-> value]
ConvertExports(exported) == [kind |-> "Exports", exports |-> exported]
ConvertErrors(errors) == [kind |-> "Errors", errors |-> errors]

\* read_doc up to read_document: get_imports, then Imports::bindings on the
\* exported bindings; the error of either is the response
DocImports ==
    /\ pc = "doc"
    /\ \E imports \in {get_imports(document)} :
          IF ~imports.ok
          THEN /\ answer' = ConvertErrors(<<ErrorFrom(imports.e)>>)
               /\ pc' = "answered"
               /\ UNCHANGED <<required, build>>
          ELSE \E req \in ImportsBindings(imports.v, build.exported) :
                  /\ build' = [build EXCEPT !.imports = Some(imports.v)]
                  /\ answer' = IF req.ok THEN answer ELSE ConvertErrors(<<ErrorFrom(req.e)>>)
                  /\ pc' = IF req.ok THEN "parsed" ELSE "answered"
                  /\ required' = IF req.ok THEN req.v ELSE required
    /\ UNCHANGED <<document, bindings, result, parent, kids, evaluated, multiVars>>

\* read_doc, the Err arm: the errors of read_document are the response
DocErrors ==
    /\ pc = "read"
    /\ \E read \in {IntoResult(MapErrFrom(result))} :
          /\ ~read.ok
          /\ answer' = ConvertErrors(read.e)
    /\ pc' = "answered"
    /\ UNCHANGED <<build, multiVars>>
    /\ templateIdle

\* read_doc, the Ok(Document::Exports) arm
DocExports ==
    /\ pc = "read"
    /\ \E read \in {IntoResult(MapErrFrom(result))} :
          /\ read.ok
          /\ read.v.kind = "Exports"
          /\ answer' = ConvertExports(read.v.exports)
    /\ pc' = "answered"
    /\ UNCHANGED <<build, multiVars>>
    /\ templateIdle

\* read_doc, the Ok(Document::Node) arm: the root node is built
DocNode ==
    /\ pc = "read"
    /\ \E read \in {IntoResult(MapErrFrom(result))} :
          /\ read.ok
          /\ read.v.kind = "Node"
          /\ \E made \in {read_navigable(ThunkField(read.v.node), build.expected)} :
             \E built \in {IntoResult(made)} :
                /\ answer' = IF built.ok THEN ConvertDeserialized(built.v)
                             ELSE ConvertErrors(built.e)
                /\ pc' = IF Panicked(made) THEN "panic" ELSE "answered"
    /\ UNCHANGED <<build, multiVars>>
    /\ templateIdle

NextDoc == DocImports \/ ReadDocument \/ DocErrors \/ DocExports \/ DocNode

SpecDoc == InitDoc /\ [][NextDoc]_vars

(***************************************************************************)
(* Properties of read_doc.                                                 *)
(***************************************************************************)
\* read_document found a problem in a declaration and still read a root node
MalformedDeclaration == result # None /\ result.tag = "OkErr" /\ result.t.kind = "Node"

\* the problems the builder finds in the root node of the document
RootProblems == read_navigable(ThunkField(result.t.node), build.expected).errs

\* the errors of the response, as a set
Answered == IF answer.kind = "Errors"
            THEN {answer.errors[i] : i \in 1..Len(answer.errors)} ELSE {}

\* C11: read_doc answers with the complete list of the problems of the
\* document: when a template declaration is malformed and the root node has
\* a shape or type error of its own, the Errors of the response hold the
\* errors of the declaration and the errors of the root node.
C11_AllProblemsInOneResponse ==
    (pc = "answered" /\ MalformedDeclaration /\ RootProblems # <<>>) =>
        /\ answer.kind = "Errors"
        /\ \A i \in 1..Len(result.errs) : ErrorFrom(result.errs[i]) \in Answered
        /\ \A i \in 1..Len(RootProblems) : RootProblems[i] \in Answered

\* C24: reading a document with zero top-level nodes is fatal: read_document
\* returns Err with the single error Empty, get_imports returns the error
\* NoBody, and read_doc never reaches read_document: its response is Errors
\* with exactly that one error, no Document and no value.
C24_EmptyDocumentIsFatal ==
    document = <<>> =>
        /\ read_document(document, required).result = MErr(<<Error("Empty", "document")>>)
        /\ get_imports(document) = Err(Error("NoBody", "document"))
        /\ pc \in {"doc", "answered"}
        /\ result = None
        /\ pc = "answered" =>
              answer = ConvertErrors(<<ErrorFrom(Error("NoBody", "document"))>>)

\* read_doc has answered on the document without nodes
C24_Witness == document = <<>> /\ pc = "answered" /\ Len(answer.errors) = 1

\* the `file/template` paths an import node names: the string values of its
\* named entries
NamedPaths(node) == {node.entries[i].value.v : i \in ImportEntries(node)}

\* C26: the Imports that get_imports returns require exactly the string
\* values of the named entries of the first node when that node is named
\* `import`, and require nothing when the first node has another name.
C26_ImportNodeNamesRequired ==
    build.imports.some =>
        required_bindings(build.imports.v) =
            IF document[1].name = "import" THEN NamedPaths(document[1]) ELSE {}

(***************************************************************************)
(* The pair-map scenario: a HashMap<String, u8> is built from a node whose *)
(* fields are unnamed, each of them meant as a `- key value` pair.         *)
(***************************************************************************)
\* the fields of a pair node: `"k"`, `"j"`, `5`, `300`
PairItems ==
    {Field(None, None, v) : v \in {KString("k"), KString("j"), KBase10("5"), KBase10("300")}}

\* the unnamed fields of the map node: pair nodes of 0 to MaxArity fields,
\* and the bare value `"x"`
PairNodes ==
    {Field(None, None, Node(q)) : q \in SeqsUpTo(PairItems, MaxArity)}
    \cup {Field(None, None, KString("x"))}

InitPairs ==
    /\ pc = "fields"
    /\ document = <<>>
    /\ required = <<>>
    /\ bindings = <<>>
    /\ result = None
    /\ parent = None
    /\ kids = <<>>
    /\ evaluated = None
    /\ accum = <<>>
    /\ acc = None
    /\ log = <<>>
    /\ answer = None
    /\ \E fields \in SeqsUpTo(PairNodes, MaxPairs) \ {<<>>} :
          build = [kind |-> Dispatch(TypeInfoOf("HashMap<String, u8>"), fields),
                   info |-> TypeInfoOf("HashMap<String, u8>"),
                   fields |-> fields, next |-> 1, dyn |-> <<>>, errors |-> <<>>,
                   result |-> None]

SpecPairs == InitPairs /\ [][NextBuild]_vars

(***************************************************************************)
(* Properties of the pair-map mode.                                        *)
(***************************************************************************)
\* the number of fields of the k-th field of the map node (a bare value has
\* none)
Arity(k) ==
    IF build.fields[k].value.kind = "Node" THEN Len(build.fields[k].value.fields) ELSE 0

\* the k-th field is a node of two fields that fit the key and the value
GoodPair(k) ==
    /\ Arity(k) = 2
    /\ build.fields[k].value.fields[1].value.kind = "String"
    /\ build.fields[k].value.fields[2].value = KBase10("5")

\* the entry a good pair stands for
EntryOf(k) ==
    [key |-> [box |-> "String", str |-> build.fields[k].value.fields[1].value.v],
     value |-> [box |-> "u8", int |-> 5]]

\* C21: in pair-map mode every field that is a node of exactly two fitting
\* fields gives the entry key -> value, every field with another number of
\* fields (0, 1, 3 or more) records an error and gives no entry, and the
\* pairs after it are still processed: the map holds exactly the entries of
\* the good pairs.
C21_PairsOfExactlyTwo ==
    (pc = "built" /\ build.kind = "PairMap") =>
        /\ \A k \in 1..Len(build.fields) : Arity(k) # 2 => ErrorsAt(k) # {}
        /\ build.result.tag # "Err"
        /\ Held(build.result.t) = {EntryOf(k) : k \in {j \in 1..Len(build.fields) : GoodPair(j)}}

(***************************************************************************)
(* The shadowing scenario: templates whose node parameter carries the name *)
(* of a template declared before them, invoked with and without a node     *)
(* argument.                                                               *)
(***************************************************************************)
\* n { p { Dflt }; Body { p; p "v" } }: a node parameter `p` with a default,
\* used in the body once bare and once with an entry
Shadow(n, p) ==
    Block(n, <<>>, <<Block(p, <<>>, <<Leaf("Dflt", <<>>)>>),
                     Block("Body", <<>>, <<Leaf(p, <<>>), Leaf(p, <<Arg(KString("v"))>>)>>)>>)

ShadowDecls == {Plain("t"), Plain("p"), Shadow("u", "t"), Shadow("u", "p")}

\* `u`, `u { Given }` and `u { t }`
ShadowRoots ==
    {Root(<<Leaf("u", <<>>)>>),
     Root(<<Block("u", <<>>, <<Leaf("Given", <<>>)>>)>>),
     Root(<<Block("u", <<>>, <<Leaf("t", <<>>)>>)>>)}

InitShadow ==
    /\ pc = "parsed"
    /\ \E decls \in SeqsUpTo(ShadowDecls, MaxBindings), root \in ShadowRoots :
          document = Append(decls, root)
    /\ required = <<>>
    /\ bindings = <<>>
    /\ result = None
    /\ parent = None
    /\ kids = <<>>
    /\ evaluated = None
    /\ accum = <<>>
    /\ acc = None
    /\ log = <<>>
    /\ build = None
    /\ answer = None

SpecShadow == InitShadow /\ [][Next]_vars

(***************************************************************************)
(* Properties of the argument shadowing.                                   *)
(***************************************************************************)
\* the i-th raw child of the thunk whose children were requested
RawChild(i) == NodeThunk(RawChildren(parent.body)[i], parent.context)

\* the i-th child has no entry and no child, and the context holds a node
\* argument under its name
NamesNodeArgument(i) ==
    /\ RawChild(i).body.entries = <<>>
    /\ RawChildren(RawChild(i).body) = <<>>
    /\ ThunkName(RawChild(i)) \in DOMAIN parent.context.arguments.nodes

\* a binding of the name of the i-th child is visible from the context
BindingVisible(i) ==
    \E k \in 1..Len(visit(Env(bindings, required), parent.context.bindings)) :
       /\ visit(Env(bindings, required), parent.context.bindings)[k].name = ThunkName(RawChild(i))
       /\ visit(Env(bindings, required), parent.context.bindings)[k].declaration.some

\* C22: a child without entries and without children whose name is the name
\* of a node argument of the current context is replaced by the thunk of
\* that argument, with the context the argument was given in, and by nothing
\* else: no binding is invoked for it, whether or not one of that name is
\* visible.
C22_NodeArgumentShadowsBinding ==
    pc = "children" =>
        \A i \in 1..Len(RawChildren(parent.body)) :
           NamesNodeArgument(i) =>
              kids[i] = <<parent.context.arguments.nodes[ThunkName(RawChild(i))]>>

\* the body of `u` declared after `t` with a node parameter `t`, invoked as
\* `u { Given }`: the child `t` of the body is the node Given in the context
\* of the root, although the template t is visible from the body
C22_Witness ==
    /\ pc = "children"
    /\ parent.body.name = "Body"
    /\ NamesNodeArgument(1)
    /\ BindingVisible(1)
    /\ kids[1] = <<NodeThunk(Leaf("Given", <<>>), result.t.node.context)>>

(***************************************************************************)
(* The evaluation scenario: NodeThunk::evaluate on the root of a document, *)
(* unfolded into one step per thunk.  `kids` is the stack of the thunks    *)
(* whose evaluate() is still to run, each with the number of binding       *)
(* invocations it is nested in; `log` names the thunks evaluate() was      *)
(* called on so far.                                                       *)
(***************************************************************************)
\* u, u { Given }, and invocations of u nested in the node argument of u:
\* u { A { u { B } } } and u { A { u { B { u { C } } } } }
EvalRoots ==
    {Root(<<Leaf("u", <<>>)>>),
     Root(<<Leaf("t", <<>>)>>),
     Root(<<Block("u", <<>>, <<Leaf("Given", <<>>)>>)>>),
     Root(<<Block("u", <<>>, <<Block("A", <<>>, <<Block("u", <<>>, <<Leaf("B", <<>>)>>)>>)>>)>>),
     Root(<<Block("u", <<>>,
              <<Block("A", <<>>,
                  <<Block("u", <<>>,
                      <<Block("B", <<>>, <<Block("u", <<>>, <<Leaf("C", <<>>)>>)>>)>>)>>)>>)>>)}

EvalDecls == {Plain("t"), Calls("t"), Calls("u"), Shadow("u", "p"), Spread("u", 1)}

InitEval ==
    /\ pc = "parsed"
    /\ \E decls \in SeqsUpTo(EvalDecls, MaxBindings), root \in EvalRoots :
          document = Append(decls, root)
    /\ required = <<>>
    /\ bindings = <<>>
    /\ result = None
    /\ parent = None
    /\ kids = <<>>
    /\ evaluated = None
    /\ accum = <<>>
    /\ acc = None
    /\ log = <<>>
    /\ build = None
    /\ answer = None

\* the i-th raw child of `thunk` is replaced by the body of a binding: it is
\* replaced, and neither by a node argument nor by a spread
Invoked(thunk, i, group) ==
    Let(NodeThunk(RawChildren(thunk.body)[i], thunk.context), LAMBDA child :
        /\ group # <<child>>
        /\ ThunkName(child) # "expand"
        /\ ~(/\ child.body.entries = <<>>
             /\ RawChildren(child.body) = <<>>
             /\ ThunkName(child) \in DOMAIN thunk.context.arguments.nodes))

\* the thunks self.children() yields, each with its nesting
Nested(thunk, depth, groups) ==
    Flatten([i \in 1..Len(groups) |->
               [j \in 1..Len(groups[i]) |->
                  [thunk |-> groups[i][j],
                   depth |-> IF Invoked(thunk, i, groups[i]) THEN depth + 1 ELSE depth]]])

\* read_document returns (the step of ReadDocument)
DocumentRead == pc = "parsed" /\ pc' \in {"read", "panic"}

\* evaluate() is called on the root node of the document
EvalRoot ==
    /\ HasRoot
    /\ kids' = <<[thunk |-> result.t.node, depth |-> 0]>>
    /\ pc' = "evaluating"
    /\ UNCHANGED <<document, required, bindings, result, parent, evaluated, multiVars, buildVars>>

\* evaluate() is entered for the thunk on top of the stack
EvalCalled ==
    /\ pc = "evaluating"
    /\ kids # <<>>
    /\ Head(kids).depth < MaxDepth
    /\ parent' = Head(kids).thunk
    /\ log' = Append(log, Head(kids).thunk.body.name)

\* one evaluate(): self.children() is expanded and evaluate() is called on
\* each of the thunks in turn
EvalStep ==
    /\ EvalCalled
    /\ \E c \in {children(Env(bindings, required), Head(kids).thunk)} :
          /\ pc' = IF c.panic THEN "panic" ELSE pc
          /\ kids' = IF c.panic THEN kids
                     ELSE Nested(Head(kids).thunk, Head(kids).depth, c.out) \o Tail(kids)
    /\ UNCHANGED <<document, required, bindings, result, evaluated, accum, acc, buildVars>>

\* no evaluate() is left to run: the one of the root returns
EvalReturned ==
    /\ pc = "evaluating"
    /\ kids = <<>>
    /\ pc' \in {"evaluated", "panic"}

\* the evaluate() of the root returns the node it built
EvalDone ==
    /\ EvalReturned
    /\ \E e \in {evaluate(Env(bindings, required), result.t.node)} :
          /\ pc' = IF e.panic THEN "panic" ELSE "evaluated"
          /\ evaluated' = IF e.panic THEN None ELSE e.r
    /\ UNCHANGED <<document, required, bindings, result, parent, kids, multiVars, buildVars>>

NextEval == ReadDocument \/ EvalRoot \/ EvalStep \/ EvalDone

\* the program runs on: a call that can be made is made, a call that can
\* return returns (DocumentRead, EvalCalled and EvalReturned are the steps
\* of ReadDocument, of EvalStep and of EvalDone)
SpecEval ==
    /\ InitEval
    /\ [][NextEval]_vars
    /\ WF_pc(DocumentRead) /\ WF_pc(EvalRoot) /\ WF_log(EvalCalled) /\ WF_pc(EvalReturned)

(***************************************************************************)
(* Properties of the evaluation.                                           *)
(***************************************************************************)
\* the number of bindings of the document
BindingCount == Len(document) - 1

RECURSIVE CallsInside(_)
CallsInside(node) ==
    LET inner == {CallsInside(RawChildren(node)[i]) : i \in 1..Len(RawChildren(node))}
        deepest == IF inner = {} THEN 0 ELSE CHOOSE d \in inner : \A e \in inner : e <= d
    IN deepest + (IF node.name \in {"t", "u"} THEN 1 ELSE 0)

ImportPaths == {"file/pub", "file/nope", "pub"}

\* Root loc="file/pub" { loc; pub }
Importing(path, nodes) == Block("Root", <<Prop("loc", KString(path))>>, nodes)

ImportDocuments ==
    {<<Importing(path, nodes)>> :
        path \in ImportPaths,
        nodes \in SeqsUpTo({Leaf("loc", <<>>), Leaf("pub", <<>>), Leaf("x", <<>>)}, MaxBindings)}
    \cup {<<ImportNode, root>> : root \in ImportRoots}
    \cup {<<Plain("loc"), root>> : root \in ImportRoots}

InitImport ==
    /\ pc = "doc"
    /\ document \in ImportDocuments
    /\ required = <<>>
    /\ bindings = <<>>
    /\ result = None
    /\ parent = None
    /\ kids = <<>>
    /\ evaluated = None
    /\ accum = <<>>
    /\ acc = None
    /\ log = <<>>
    /\ \E exported \in ExportedLists :
          build = [expected |-> None, exported |-> exported, imports |-> None]
    /\ answer = None

NextImport == DocImports \/ ReadDocument \/ RootChildren \/ Descend

SpecImport == InitImport /\ [][NextImport]_vars

\* the imports that were resolved under the local name of the i-th child
ImportedAs(i) == {j \in 1..Len(required) : required[j].local = ThunkName(RawChild(i))}

\* C27: after Imports::bindings has resolved the entry local="file/template",
\* a child of the root named `local` is replaced by the body of the binding
\* that `file` exports as `template`: the imported binding is matched by the
\* local name recorded for it, not by the name it was exported under.
C27_ImportedMatchedByLocalName ==
    (pc = "children" /\ parent = result.t.node /\ bindings = <<>>) =>
        \A i \in 1..Len(RawChildren(parent.body)) :
           IF ImportedAs(i) # {}
           THEN \E j \in ImportedAs(i) :
                   /\ Len(kids[i]) = 1
                   /\ kids[i][1].body = required[j].binding.declaration.v.body
           ELSE kids[i] = <<RawChild(i)>>

(***************************************************************************)
(* Spans.  A parsed document is described by the lengths of its parts: the *)
(* text of a node is its leading text, `(ty)`, its name, its entries, the  *)
(* text before the children block, `{` children `}` and its trailing text. *)
(* Two implementations compute offsets from these lengths: the Sbor        *)
(* proxies of multierr-span/src/kdl_impls.rs and the Spanned* wrappers of  *)
(* template-kdl/src/span.rs.                                               *)
(***************************************************************************)
SEntry(leading, inner, trailing) ==
    [leading |-> leading, inner |-> inner, trailing |-> trailing]
SNode(leading, ty, name, entries, before_children, nodes, trailing) ==
    [leading |-> leading, ty |-> ty, name |-> name, entries |-> entries,
     before_children |-> before_children, children |-> nodes, trailing |-> trailing]
SDoc(leading, nodes, trailing) == [leading |-> leading, nodes |-> nodes, trailing |-> trailing]

RECURSIVE Total(_)
Total(lengths) == IF lengths = <<>> THEN 0 ELSE Head(lengths) + Total(Tail(lengths))

\* iter().map(|t| t.length()).sum()
Sum(q, length(_)) == Total([i \in 1..Len(q) |-> length(q[i])])

\* impl Length for KdlEntry
EntryLength(entry) == entry.inner + entry.leading + entry.trailing

RECURSIVE NodeInnerLength(_)
\* impl Length for KdlNode and for KdlDocument
NodeLength(node) == NodeInnerLength(node) + node.leading + node.trailing
DocInnerLength(doc) == Sum(doc.nodes, NodeLength)
DocLength(doc) == DocInnerLength(doc) + doc.leading + doc.trailing
NodeInnerLength(node) ==
    (IF node.ty.some THEN node.ty.v + 2 ELSE 0)
    + node.name
    + Sum(node.entries, EntryLength)
    + node.before_children
    + (IF node.children.some THEN DocLength(node.children.v) + 2 ELSE 0)

\* impl Spanned for Sbor
SborSpan(leading, inner_length, offset) == [offset |-> offset + leading, size |-> inner_length]

\* the array proxies: every element with the offset reached before it, which
\* grows by length(elem) at each element
Scan(q, offset, length(_)) ==
    [i \in 1..Len(q) |-> [elem |-> q[i], offset |-> offset + Sum(SubSeq(q, 1, i - 1), length)]]

\* Sbor<KdlDocument>::nodes
SborNodes(doc, offset) == Scan(doc.nodes, offset + doc.leading, NodeLength)

\* the offset of the name of a node
SborName(node, offset) ==
    offset + node.leading + (IF node.ty.some THEN node.ty.v + 2 ELSE 0)

\* Sbor<KdlNode>::entries
SborEntries(node, offset) == Scan(node.entries, SborName(node, offset) + node.name, EntryLength)

\* Sbor<KdlNode>::children: the offset of the document of the children
SborChildren(node, offset) ==
    SborName(node, offset) + node.name + Sum(node.entries, EntryLength)
        + node.before_children + 1

\* KdlNodeSizeExt
ty_len(node) == IF node.ty.some THEN node.ty.v + 2 ELSE 0
entries_len(node) ==
    Sum(node.entries, EntryLength) + node.before_children
        + (IF node.children.some THEN 1 ELSE 0)
children_len(node) == IF node.children.some THEN DocLength(node.children.v) ELSE 0
full_len(node) == ty_len(node) + node.name + entries_len(node) + children_len(node)

\* what one step of SpannedDocument::nodes adds to the offset
Advance(node) == node.leading + full_len(node)

\* SpannedDocument::nodes
SpannedNodes(doc, offset) == Scan(doc.nodes, offset, Advance)

\* SpannedNode::entries
SpannedEntries(node, offset) ==
    Scan(node.entries, offset + ty_len(node) + node.name, EntryLength)

\* SpannedNode::children: the offset of the SpannedDocument of the children
SpannedChildren(node, offset) ==
    offset + ty_len(node) + node.name + entries_len(node) + node.children.v.leading

\* SpannedNode::span and SpannedEntry::span
SpannedNodeSpan(node, offset) == [offset |-> offset, size |-> full_len(node)]
SpannedEntrySpan(entry, offset) == [offset |-> offset, size |-> EntryLength(entry)]

(***************************************************************************)
(* The span scenario: a document is walked with one of the two             *)
(* implementations: its nodes are listed, then the entries of a node are   *)
(* listed or the document of its children is entered.                      *)
(***************************************************************************)
SpanEntry(i) == SEntry(1, i, i % 2)
SpanEntries(k) == [i \in 1..k |-> SpanEntry(i)]

SpanLeaves ==
    {SNode(lt[1], None, 1, SpanEntries(k), 0, None, lt[2]) :
        lt \in {<<0, 0>>, <<0, 1>>, <<1, 1>>}, k \in {0, MaxEntries}}
    \cup {SNode(1, Some(1), 2, SpanEntries(1), 0, None, 1)}

SpanParents ==
    {SNode(0, None, 1, SpanEntries(k), 1, Some(SDoc(1, nodes, 1)), 1) :
        k \in {0, 1},
        nodes \in {<<SNode(0, None, 1, <<>>, 0, None, 1)>>,
                   <<SNode(1, None, 1, SpanEntries(1), 0, None, 1),
                     SNode(1, None, 2, <<>>, 0, None, 1)>>}}

SpanDocuments ==
    {SDoc(leading, nodes, 0) :
        leading \in {0, 1}, nodes \in SeqsUpTo(SpanLeaves \cup SpanParents, MaxBindings)}

\* SpannedDocument::new, and Sbor::new(document, 0)
InitSpan ==
    /\ pc = "doc"
    /\ \E doc \in SpanDocuments, proxies \in {"Sbor", "Spanned"} :
          build = [proxies |-> proxies, doc |-> doc,
                   offset |-> IF proxies = "Spanned" THEN doc.leading ELSE 0,
                   within |-> None]
    /\ answer = None
    /\ document = <<>>
    /\ required = <<>>
    /\ bindings = <<>>
    /\ result = None
    /\ parent = None
    /\ kids = <<>>
    /\ evaluated = None
    /\ accum = <<>>
    /\ acc = None
    /\ log = <<>>

spanIdle ==
    UNCHANGED <<document, required, bindings, result, parent, kids, evaluated, multiVars>>

\* the span of a yielded node or entry
SpanOf(proxies, kind, item) ==
    IF proxies = "Sbor"
    THEN IF kind = "nodes"
         THEN SborSpan(item.elem.leading, NodeInnerLength(item.elem), item.offset)
         ELSE SborSpan(item.elem.leading, item.elem.inner, item.offset)
    ELSE IF kind = "nodes" THEN SpannedNodeSpan(item.elem, item.offset)
         ELSE SpannedEntrySpan(item.elem, item.offset)

\* nodes() on the current document
SpanNodes ==
    /\ pc = "doc"
    /\ answer' = [kind |-> "nodes",
                  items |-> IF build.proxies = "Sbor"
                            THEN SborNodes(build.doc, build.offset)
                            ELSE SpannedNodes(build.doc, build.offset)]
    /\ pc' = "nodes"
    /\ UNCHANGED build
    /\ spanIdle

\* entries() on one of the nodes that were yielded
SpanNodeEntries ==
    /\ pc = "nodes"
    /\ \E i \in 1..Len(answer.items) :
          /\ answer' = [kind |-> "entries",
                        items |-> IF build.proxies = "Sbor"
                                  THEN SborEntries(answer.items[i].elem, answer.items[i].offset)
                                  ELSE SpannedEntries(answer.items[i].elem, answer.items[i].offset)]
          /\ build' = [build EXCEPT
                         !.within = Some(SpanOf(build.proxies, "nodes", answer.items[i]))]
    /\ pc' = "entries"
    /\ spanIdle

\* children() on one of the nodes that were yielded
SpanNodeChildren ==
    /\ pc = "nodes"
    /\ \E i \in 1..Len(answer.items) :
          /\ answer.items[i].elem.children.some
          /\ build' = [build EXCEPT
                         !.doc = answer.items[i].elem.children.v,
                         !.offset = IF build.proxies = "Sbor"
                                    THEN SborChildren(answer.items[i].elem, answer.items[i].offset)
                                    ELSE SpannedChildren(answer.items[i].elem, answer.items[i].offset),
                         !.within = Some(SpanOf(build.proxies, "nodes", answer.items[i]))]
    /\ answer' = None
    /\ pc' = "doc"
    /\ spanIdle

NextSpan == SpanNodes \/ SpanNodeEntries \/ SpanNodeChildren

SpecSpan == InitSpan /\ [][NextSpan]_vars

\* leading + inner + trailing of a yielded node or entry
FullLength(kind, elem) == IF kind = "nodes" THEN NodeLength(elem) ELSE EntryLength(elem)

\* the full lengths of the siblings yielded before the i-th
Preceding(i) ==
    Sum([j \in 1..(i - 1) |-> FullLength(answer.kind, answer.items[j].elem)], LAMBDA n : n)

Yielded(i) == SpanOf(build.proxies, answer.kind, answer.items[i])

\* C25: for the nodes of a document and the entries of a node, the offset of
\* each element is the offset of the first element plus the full lengths
\* (leading + inner + trailing) of the siblings before it; the spans of the
\* siblings are pairwise disjoint, in the order of the document, and inside
\* the span of their parent.
C25_SiblingOffsets ==
    pc \in {"nodes", "entries"} =>
        /\ \A i \in 1..Len(answer.items) :
              answer.items[i].offset = answer.items[1].offset + Preceding(i)
        /\ \A i, j \in 1..Len(answer.items) :
              i < j => Yielded(i).offset + Yielded(i).size <= Yielded(j).offset
        /\ build.within.some =>
              \A i \in 1..Len(answer.items) :
                 /\ build.within.v.offset <= Yielded(i).offset
                 /\ Yielded(i).offset + Yielded(i).size
                        <= build.within.v.offset + build.within.v.size

(***************************************************************************)
(* reload.rs: one entity carries a Hook and the instance of a scene.  Each *)
(* frame run_hooks runs once, other systems may write Hook::state, and the *)
(* commands queued during the frame are applied at the end of the stage.   *)
(* `build` holds the world, `log` the entities the hook closure was called *)
(* on.                                                                     *)
(***************************************************************************)
MaxReloads == 2

SceneEntities == {"e1", "e2"}

\* the order in which instance_entities lists the entities
EntityOrder == <<"e1", "e2">>

\* Hook::new, on an entity that waits for its scene
InitHooks ==
    /\ pc = "frame"
    /\ build = [state |-> "Loading", exists |-> TRUE, instance |-> "absent",
                entities |-> {}, alive |-> {}, cmds |-> <<>>,
                requests |-> 0, rounds |-> 0, hooked |-> FALSE, between |-> None,
                last |-> None]
    /\ log = <<>>
    /\ answer = None
    /\ document = <<>>
    /\ required = <<>>
    /\ bindings = <<>>
    /\ result = None
    /\ parent = None
    /\ kids = <<>>
    /\ evaluated = None
    /\ accum = <<>>
    /\ acc = None

hooksIdle ==
    UNCHANGED <<document, required, bindings, result, parent, kids, evaluated, accum, acc, answer>>

\* entities.iter().filter_map(|e| world.get_entity(*e)): the instance entities
\* that exist, in the order of the instance
Existing(world) == SelectSeq(EntityOrder, LAMBDA e : e \in world.entities /\ e \in world.alive)

\* the Query<(Entity, &MNG::Instance, &Hook)> yields the entity
Queried(world) == world.exists /\ world.instance # "absent"

\* AssetManager::instance_entities is Some
Available(world) == world.instance = "ready"

Despawns(world) == [i \in 1..Len(Existing(world)) |-> [cmd |-> "despawn", entity |-> Existing(world)[i]]]

\* the commands one run of run_hooks queues
HookCommands(world) ==
    IF ~(Queried(world) /\ Available(world)) THEN <<>>
    ELSE CASE world.state = "Loading" -> <<[cmd |-> "UpdateHook", new_state |-> "Hooked"]>>
           [] world.state = "Hooked" -> <<>>
           [] world.state = "MustReload" ->
                Despawns(world) \o <<[cmd |-> "UpdateHook", new_state |-> "Loading"],
                                     [cmd |-> "reload"]>>
           [] world.state = "MustDelete" -> Despawns(world) \o <<[cmd |-> "delete"]>>

\* the entities one run of run_hooks calls the hook closure on
HookCalls(world) ==
    IF Queried(world) /\ Available(world) /\ world.state = "Loading"
    THEN Existing(world) ELSE <<>>

\* run_hooks
RunHooks ==
    /\ pc = "frame"
    /\ build' = [build EXCEPT
                   !.cmds = @ \o HookCommands(build),
                   !.rounds = IF HookCalls(build) # <<>> THEN @ + 1 ELSE @,
                   !.hooked = @ \/ HookCalls(build) # <<>>,
                   !.last = Some([state |-> build.state,
                                  available |-> Queried(build) /\ Available(build),
                                  existing |-> Existing(build),
                                  called |-> HookCalls(build)])]
    /\ log' = log \o HookCalls(build)
    /\ pc' = "ran"
    /\ hooksIdle

RECURSIVE Applied(_, _)
\* the world after the queued commands were applied in order
Applied(world, cmds) ==
    IF cmds = <<>> THEN world
    ELSE Applied(
           CASE Head(cmds).cmd = "UpdateHook" ->
                  IF world.exists THEN [world EXCEPT !.state = Head(cmds).new_state] ELSE world
             [] Head(cmds).cmd = "despawn" ->
                  [world EXCEPT !.alive = @ \ {Head(cmds).entity}]
             [] Head(cmds).cmd = "reload" ->
                  [world EXCEPT !.instance = "absent", !.entities = {}, !.hooked = FALSE]
             [] Head(cmds).cmd = "delete" ->
                  [world EXCEPT !.exists = FALSE],
           Tail(cmds))

\* the end of the stage: the commands of the frame are applied
ApplyCommands ==
    /\ pc = "ran"
    /\ build' = [Applied(build, build.cmds) EXCEPT !.cmds = <<>>]
    /\ pc' = "frame"
    /\ UNCHANGED log
    /\ hooksIdle

\* another system writes Hook::state, before run_hooks or between run_hooks
\* and the end of the stage
StateWritten ==
    /\ build.exists
    /\ build.state \in {"Loading", "Hooked"}
    /\ build.requests <= MaxReloads
    /\ \E new_state \in {"MustReload", "MustDelete"} :
          build' = IF new_state = "MustDelete" THEN [build EXCEPT !.state = new_state]
                   ELSE [build EXCEPT
                           !.state = new_state,
                           !.requests = @ + 1,
                           !.rounds = 0,
                           !.between = IF build.requests > 0 /\ build.hooked
                                       THEN Some(build.rounds) ELSE None]
    /\ UNCHANGED <<pc, log>>
    /\ hooksIdle

\* the scene spawner gives the entity its instance, and later the instance
\* is ready: its entities exist
SceneSpawned ==
    /\ build.exists
    /\ \/ /\ build.instance = "absent"
          /\ build' = [build EXCEPT !.instance = "spawning"]
       \/ /\ build.instance = "spawning"
          /\ \E entities \in SUBSET SceneEntities :
                build' = [build EXCEPT !.instance = "ready",
                                       !.entities = entities, !.alive = entities]
    /\ UNCHANGED <<pc, log>>
    /\ hooksIdle

NextHooks == RunHooks \/ ApplyCommands \/ StateWritten \/ SceneSpawned

SpecHooks == InitHooks /\ [][NextHooks]_vars

\* C29: run_hooks calls the hook closure only when the Hook is Loading and
\* the entities of the instance are available, once on each existing entity
\* of the instance, and that run moves the Hook to Hooked; in Hooked, and
\* when the entities are not available, it calls nothing and queues nothing.
\* Hence between two MustReload requests made on an instance whose hook has
\* run, the hook ran exactly once on the entities of the loaded instance.
C29_HookRunsOncePerLoad ==
    /\ (pc = "ran" /\ build.last.some) =>
          /\ build.last.v.called # <<>> =>
                build.last.v.state = "Loading" /\ build.last.v.available
          /\ (build.last.v.state = "Loading" /\ build.last.v.available) =>
                /\ build.last.v.called = build.last.v.existing
                /\ [cmd |-> "UpdateHook", new_state |-> "Hooked"]
                      \in {build.cmds[i] : i \in 1..Len(build.cmds)}
          /\ (build.last.v.state = "Hooked" \/ ~build.last.v.available) =>
                build.last.v.called = <<>> /\ build.cmds = <<>>
    /\ build.between.some => build.between.v = 1

(***************************************************************************)
(* depends.rs: load_scene calls load_kdl_template on the file of a scene;  *)
(* the call loads the files its document imports, recursively, and then    *)
(* registers the file in KdlInstances.  `build` holds the files, `kids`    *)
(* the stack of the calls in progress and `answer` the KdlInstances.       *)
(***************************************************************************)
MaxScenes == 2

FileNames == {"a", "b", "c"}

\* what from_doc makes of a file, or the file cannot be read
FileKinds == {"ExportsReady", "SceneReady", "Unreadable"}

\* load_kdl_template up to the loop: the call of `current` is entered, or its
\* file cannot be opened, read or parsed
Entered(files, current) ==
    IF files[current].kind = "Unreadable" THEN None
    ELSE Some([current |-> current, pending |-> files[current].required_files,
               dependencies |-> {}, calling |-> None])

InitLoad ==
    /\ pc = "idle"
    /\ \E files \in [FileNames -> [kind : FileKinds, required_files : SUBSET FileNames]] :
          /\ \A f \in FileNames : files[f].kind = "Unreadable" => files[f].required_files = {}
          /\ files["c"].required_files = {}
          /\ build = [files |-> files, scenes |-> 0]
    /\ kids = <<>>
    /\ answer = [states |-> <<>>, keys |-> EmptyMap]
    /\ document = <<>>
    /\ required = <<>>
    /\ bindings = <<>>
    /\ result = None
    /\ parent = None
    /\ evaluated = None
    /\ accum = <<>>
    /\ acc = None
    /\ log = <<>>

loadIdle ==
    UNCHANGED <<document, required, bindings, result, parent, evaluated, multiVars>>

Top == kids[Len(kids)]

\* load_scene: load_kdl_template(root, &scene.file, ..).unwrap() for a scene
\* that was added or changed
LoadScene ==
    /\ pc \in {"idle", "loaded"}
    /\ build.scenes < MaxScenes
    /\ \E file \in FileNames :
          /\ kids' = IF Entered(build.files, file).some
                     THEN <<Entered(build.files, file).v>> ELSE <<>>
          /\ pc' = IF Entered(build.files, file).some THEN "loading" ELSE "panic"
    /\ build' = [build EXCEPT !.scenes = @ + 1]
    /\ UNCHANGED answer
    /\ loadIdle

\* the caller goes on with the key of a dependency: its exports are cloned
\* and the key is recorded, or the dependency is not a file of exports
Continued(frame, dep, exports_key) ==
    [frame EXCEPT !.pending = @ \ {dep}, !.dependencies = @ \cup {exports_key},
                  !.calling = None]

\* the loop of load_kdl_template meets a dependency that is in `keys`
DependencyReused ==
    /\ pc = "loading"
    /\ ~Top.calling.some
    /\ \E dep \in Top.pending :
          /\ dep \in DOMAIN answer.keys
          /\ IF answer.states[answer.keys[dep]].state = "ExportsReady"
             THEN /\ kids' = [kids EXCEPT ![Len(kids)] = Continued(Top, dep, answer.keys[dep])]
                  /\ pc' = pc
             ELSE /\ kids' = kids
                  /\ pc' = "panic"
    /\ UNCHANGED <<build, answer>>
    /\ loadIdle

\* the loop meets a dependency that is not in `keys`: load_kdl_template calls
\* itself on it; the call stack is exhausted at MaxDepth calls
DependencyLoaded ==
    /\ pc = "loading"
    /\ ~Top.calling.some
    /\ \E dep \in Top.pending :
          /\ dep \notin DOMAIN answer.keys
          /\ IF Len(kids) >= MaxDepth
             THEN kids' = kids /\ pc' = "overflow"
             ELSE IF Entered(build.files, dep).some
                  THEN /\ kids' = Append([kids EXCEPT ![Len(kids)].calling = Some(dep)],
                                         Entered(build.files, dep).v)
                       /\ pc' = pc
                  ELSE kids' = <<>> /\ pc' = "panic"
    /\ UNCHANGED <<build, answer>>
    /\ loadIdle

\* instances.states.insert(LoadStatus { .. }) and instances.keys.insert
Inserted(instances, frame, state) ==
    [states |-> Append(instances.states,
                       [source |-> frame.current, state |-> state,
                        dependencies |-> frame.dependencies]),
     keys |-> [f \in DOMAIN instances.keys \cup {frame.current} |->
                 IF f = frame.current THEN Len(instances.states) + 1 ELSE instances.keys[f]]]

\* the loop is over: the file is registered and the call returns its key to
\* load_scene or to the call that waits for it
FileRegistered ==
    /\ pc = "loading"
    /\ ~Top.calling.some
    /\ Top.pending = {}
    /\ answer' = Inserted(answer, Top, build.files[Top.current].kind)
    /\ IF Len(kids) = 1
       THEN kids' = <<>> /\ pc' = "loaded"
       ELSE IF build.files[Top.current].kind = "ExportsReady"
            THEN /\ kids' = [SubSeq(kids, 1, Len(kids) - 1) EXCEPT
                               ![Len(kids) - 1] =
                                  Continued(kids[Len(kids) - 1], Top.current,
                                            Len(answer.states) + 1)]
                 /\ pc' = pc
            ELSE kids' = SubSeq(kids, 1, Len(kids) - 1) /\ pc' = "panic"
    /\ UNCHANGED build
    /\ loadIdle

NextLoad == LoadScene \/ DependencyReused \/ DependencyLoaded \/ FileRegistered

SpecLoad == InitLoad /\ [][NextLoad]_vars

\* the number of entries of KdlInstances::states made for the file
Registrations(file) ==
    Cardinality({i \in 1..Len(answer.states) : answer.states[i].source = file})

\* the file is being loaded by two calls at once
Reentered(file) ==
    \E i, j \in 1..Len(kids) : i < j /\ kids[i].current = file /\ kids[j].current = file

\* C30: load_kdl_template terminates for every finite set of files, also when
\* several files import the same dependency and when files import each
\* other: no call loads a file that an enclosing call is loading and the
\* call stack is never exhausted; and every file is registered at most once
\* in KdlInstances, a dependency found in `keys` being reused.
C30_LoadTerminatesOnce ==
    /\ pc # "overflow"
    /\ \A file \in FileNames : ~Reentered(file) /\ Registrations(file) <= 1
====
